---- MODULE Spec2Model ----
(***************************************************************************)
(* Buyer lead management: the CSV import / export pipeline of              *)
(* src/lib/csv-utils.ts and the zod schemas of src/lib/schemas.ts.         *)
(*                                                                         *)
(* JavaScript strings are TLA+ strings (sequences of characters); a JS     *)
(* object is a function whose DOMAIN is the set of keys that are present   *)
(* (a key whose value is undefined is absent from the DOMAIN, which is     *)
(* also what zod's object parser produces for undefined values).           *)
(***************************************************************************)
EXTENDS Integers, Sequences, FiniteSets, TLC

VARIABLES
    op,            \* the call of this run: "safeParse", "parseCsvContent", "encode",
                   \* "decode"; "replaceLine" once the document was parsed again
                   \* with one line replaced
    done,          \* whether the call has returned (or thrown)
    rowData,       \* argument of CsvRowSchema.safeParse
    parsed,        \* what that call produced
    csvContent,    \* argument of the last parseCsvContent call
    result,        \* what that call produced
    prevContent,   \* the document before one of its lines was replaced
    prevResult,    \* parseCsvContent of prevContent
    replacedLine,  \* index (header = 0) of the replaced line, -1 when none
    codecField,    \* enumerated field of the codec call
    codecIn,       \* token handed to the codec
    codecOut,      \* token the codec returned
    cellValue,     \* field value handed to the export's cell quoting
    tokLine,       \* line handed to parseCsvLine
    tokFields,     \* fields parseCsvLine returned
    upload,        \* the file of the import requests
    buyers,        \* the Buyer table, in insertion order
    response,      \* the response to the last request handled
    handled,       \* number of requests handled so far
    clock,         \* Date.now()
    limiter,       \* the RateLimiter instance the behaviour is about
    requests,      \* its requests map: identifier -> [count, resetTime]
    rateCall,      \* the withRateLimit call under way, and its last result
    allowedLog,    \* per identifier, the times of the calls allowed lately
    steps,         \* number of advances of the clock
    patches,       \* the PATCH requests: their position in the handler, their
                   \* locals and, at the end, their response
    history        \* the BuyerHistory table, in insertion order

vars == <<op, done, rowData, parsed, csvContent, result, prevContent, prevResult,
          replacedLine, codecField, codecIn, codecOut, cellValue, tokLine, tokFields,
          upload, buyers, response, handled, clock,
          limiter, requests, rateCall, allowedLog, steps, patches, history>>

\* the variables of the tokenizer calls
tokVars == <<cellValue, tokLine, tokFields>>

\* the variables of the validation and parsing calls
csvVars == <<op, done, rowData, parsed, csvContent, result, prevContent, prevResult,
             replacedLine, codecField, codecIn, codecOut, tokVars>>

\* the variables of the request handlers
storeVars == <<upload, buyers, response, handled, clock>>

\* the variables of the rate limiter
rateVars == <<limiter, requests, rateCall, allowedLog, steps>>

\* the variables of the update requests
patchVars == <<patches, history>>

----------------------------------------------------------------------------
(* JavaScript string primitives used by the code.                          *)

CharAt(s, i) == SubSeq(s, i, i)

\* F of the value of v: v is evaluated once, before F is (a const binding)
With(v, F(_)) == CHOOSE out \in {F(x) : x \in {v}} : TRUE

\* String.prototype.trim strips these (the white space of the inputs used here).
IsWhitespace(c) == c \in {" ", "\t", "\n", "\r"}

SetMin(S) == CHOOSE x \in S : \A y \in S : x <= y

\* the first position from i on that holds no white space (Len(s) + 1 if none)
skipWhitespace[s \in STRING, i \in Nat] ==
    IF i > Len(s) \/ ~IsWhitespace(CharAt(s, i)) THEN i ELSE skipWhitespace[s, i + 1]

\* the last position up to n that holds no white space (0 if none)
skipWhitespaceBack[s \in STRING, n \in Nat] ==
    IF n = 0 \/ ~IsWhitespace(CharAt(s, n)) THEN n ELSE skipWhitespaceBack[s, n - 1]

\* s.trimStart(), the white-space skipping of parseInt
trimStart(s) == SubSeq(s, skipWhitespace[s, 1], Len(s))

\* s.trim()
trim(s) == SubSeq(s, skipWhitespace[s, 1], skipWhitespaceBack[s, Len(s)])

\* the pieces of s.split(sep) from position from on
splitFrom[s \in STRING, sep \in STRING, from \in Nat] ==
    LET seps == {k \in from..Len(s) : CharAt(s, k) = sep}
    IN  IF seps = {} THEN <<SubSeq(s, from, Len(s))>>
        ELSE <<SubSeq(s, from, SetMin(seps) - 1)>> \o splitFrom[s, sep, SetMin(seps) + 1]

\* s.split(sep) for a one-character separator: always at least one element.
split(s, sep) == splitFrom[s, sep, 1]

\* array.includes(x)
includes(arr, x) == \E k \in 1..Len(arr) : arr[k] = x

\* s.includes(c) for a one-character c
strIncludes(s, c) == \E k \in 1..Len(s) : CharAt(s, k) = c

\* the elements of arr from the k-th on, each preceded by sep
joinFrom[arr \in Seq(STRING), sep \in STRING, k \in Nat] ==
    IF k > Len(arr) THEN "" ELSE sep \o arr[k] \o joinFrom[arr, sep, k + 1]

\* array.join(sep)
join(arr, sep) == IF Len(arr) = 0 THEN "" ELSE arr[1] \o joinFrom[arr, sep, 2]

----------------------------------------------------------------------------
(* parseCsvLine: one left-to-right scan with an inQuotes flag.  Indices    *)
(* are 1-based here; nextChar is "" past the end (undefined in the code).  *)
(* The while loop is unrolled as a scan of one field (scanField, up to the *)
(* separator that ends it) inside a loop over the fields: a separator is   *)
(* only taken while inQuotes is false, so every field starts with          *)
(* current = '' and inQuotes = false.                                      *)

\* the loop from position i up to the field separator or the end of the line:
\* where it stops (Len(line) + 1 at the end of the line) and current there
scanField[line \in STRING, i \in Nat, current \in STRING, inQuotes \in BOOLEAN] ==
    IF i > Len(line) THEN [stop |-> i, current |-> current]
    ELSE
      LET char == CharAt(line, i)
          nextChar == IF i + 1 <= Len(line) THEN CharAt(line, i + 1) ELSE ""
      IN  IF char = "\"" THEN
              IF inQuotes /\ nextChar = "\""
              THEN scanField[line, i + 2, current \o "\"", inQuotes]
              ELSE scanField[line, i + 1, current, ~inQuotes]
          ELSE IF char = "," /\ ~inQuotes
          THEN [stop |-> i, current |-> current]
          ELSE scanField[line, i + 1, current \o char, inQuotes]

\* result.push(current.trim()) at each separator and at the end of the line
parseCsvLineFrom[line \in STRING, i \in Nat, acc \in Seq(STRING)] ==
    With(scanField[line, i, "", FALSE], LAMBDA f :
        IF f.stop > Len(line) THEN Append(acc, trim(f.current))
        ELSE parseCsvLineFrom[line, f.stop + 1, Append(acc, trim(f.current))])

\* parseCsvLine without its inQuotes flag
parseCsvLine_NoQuotes(line) ==
    LET pieces == split(line, ",") IN [k \in 1..Len(pieces) |-> trim(pieces[k])]

parseCsvLine(line) == parseCsvLineFrom[line, 1, <<>>]

----------------------------------------------------------------------------
(* parseInt(val, 10): leading white space skipped, an optional sign, then  *)
(* the longest run of decimal digits; NaN when there is no digit.          *)

Digits == <<"0", "1", "2", "3", "4", "5", "6", "7", "8", "9">>

IsDigit(c) == \E k \in 1..Len(Digits) : Digits[k] = c

DigitValue(c) == (CHOOSE k \in 1..Len(Digits) : Digits[k] = c) - 1

\* the value of the digits of s from position i on, continuing from acc
digitRun[s \in STRING, i \in Nat, acc \in Nat] ==
    IF i > Len(s) \/ ~IsDigit(CharAt(s, i)) THEN acc
    ELSE digitRun[s, i + 1, acc * 10 + DigitValue(CharAt(s, i))]

\* [nan |-> TRUE] or [nan |-> FALSE, num |-> n]
parseInt(val) ==
    LET t == trimStart(val)
        signed == Len(t) >= 1 /\ CharAt(t, 1) \in {"+", "-"}
        first == IF signed THEN 2 ELSE 1
    IN  IF first > Len(t) \/ ~IsDigit(CharAt(t, first)) THEN [nan |-> TRUE]
        ELSE LET n == digitRun[t, first, 0]
             IN  [nan |-> FALSE,
                  num |-> IF signed /\ CharAt(t, 1) = "-" THEN 0 - n ELSE n]

----------------------------------------------------------------------------
(* zod's e-mail check (z.string().email()): no leading dot, no two dots  *)
(* in a row; a local part of letters, digits and _ ' + - . that does not   *)
(* end in a dot or a quote; one @; one or more domain labels (a letter or  *)
(* digit, then letters, digits, hyphens), each followed by a dot; a final  *)
(* label of two or more letters.                                           *)

Letters == {"a", "b", "c", "d", "e", "f", "g", "h", "i", "j", "k", "l", "m",
            "n", "o", "p", "q", "r", "s", "t", "u", "v", "w", "x", "y", "z",
            "A", "B", "C", "D", "E", "F", "G", "H", "I", "J", "K", "L", "M",
            "N", "O", "P", "Q", "R", "S", "T", "U", "V", "W", "X", "Y", "Z"}

IsAlnum(c) == c \in Letters \/ IsDigit(c)

\* ([A-Z0-9][A-Z0-9\-]*\.)+[A-Z]{2,} on the labels of the domain
IsEmailDomain(labels) ==
    /\ Len(labels) >= 2
    /\ \A j \in 1..(Len(labels) - 1) :
           /\ Len(labels[j]) >= 1
           /\ IsAlnum(CharAt(labels[j], 1))
           /\ \A k \in 2..Len(labels[j]) :
                  IsAlnum(CharAt(labels[j], k)) \/ CharAt(labels[j], k) = "-"
    /\ Len(labels[Len(labels)]) >= 2
    /\ \A k \in 1..Len(labels[Len(labels)]) : CharAt(labels[Len(labels)], k) \in Letters

IsEmail(s) ==
    LET ats == {k \in 1..Len(s) : CharAt(s, k) = "@"}
    IN  /\ Cardinality(ats) = 1
        /\ LET at == CHOOSE k \in ats : TRUE
               local == SubSeq(s, 1, at - 1)
           IN  /\ Len(local) >= 1
               /\ CharAt(s, 1) # "."
               /\ \A k \in 1..(Len(s) - 1) : ~(CharAt(s, k) = "." /\ CharAt(s, k + 1) = ".")
               /\ \A k \in 1..(Len(local) - 1) :
                      IsAlnum(CharAt(local, k)) \/ CharAt(local, k) \in {"_", "'", "+", "-", "."}
               /\ LET last == CharAt(local, Len(local))
                  IN  IsAlnum(last) \/ last \in {"_", "+", "-"}
               /\ With(split(SubSeq(s, at + 1, Len(s)), "."), LAMBDA labels : IsEmailDomain(labels))

----------------------------------------------------------------------------
(* Enumerations (canonical, as stored) and the user-facing enumerations of *)
(* forms and CSV files.                                                    *)

PropertyTypeEnum == {"Apartment", "Villa", "Plot", "Office", "Retail"}
PurposeEnum == {"Buy", "Rent"}
TimelineEnum == {"ZERO_TO_THREE_MONTHS", "THREE_TO_SIX_MONTHS", "MORE_THAN_SIX_MONTHS", "Exploring"}
BuyerStatusEnum == {"New", "Qualified", "Contacted", "Visited", "Negotiation", "Converted", "Dropped"}
CityEnum == {"Chandigarh", "Mohali", "Zirakpur", "Panchkula", "Other"}
SourceEnum == {"Website", "Referral", "Walk_in", "Call", "Other"}
BHKEnum == {"ONE", "TWO", "THREE", "FOUR", "Studio"}

FormTimelineEnum == {"0-3m", "3-6m", ">6m", "Exploring"}
FormBHKEnum == {"1", "2", "3", "4", "Studio"}
FormSourceEnum == {"Website", "Referral", "Walk-in", "Call", "Other"}

\* The switch of transformTimeline (applied by zod after the enum check).
transformTimeline(val) ==
    CASE val = "0-3m" -> "ZERO_TO_THREE_MONTHS"
      [] val = "3-6m" -> "THREE_TO_SIX_MONTHS"
      [] val = ">6m" -> "MORE_THAN_SIX_MONTHS"
      [] val = "Exploring" -> "Exploring"
      [] OTHER -> val

\* The switch of transformBHK.
transformBHK(val) ==
    CASE val = "1" -> "ONE"
      [] val = "2" -> "TWO"
      [] val = "3" -> "THREE"
      [] val = "4" -> "FOUR"
      [] val = "Studio" -> "Studio"
      [] OTHER -> val

\* The switch of transformSource.
transformSource(val) ==
    CASE val = "Walk-in" -> "Walk_in"
      [] OTHER -> val

\* generateCsvContent: database enum values back to CSV format.
decodeBhk(value) ==
    CASE value = "ONE" -> "1"
      [] value = "TWO" -> "2"
      [] value = "THREE" -> "3"
      [] value = "FOUR" -> "4"
      [] value = "Studio" -> "Studio"
      [] OTHER -> value

decodeTimeline(value) ==
    CASE value = "ZERO_TO_THREE_MONTHS" -> "0-3m"
      [] value = "THREE_TO_SIX_MONTHS" -> "3-6m"
      [] value = "MORE_THAN_SIX_MONTHS" -> ">6m"
      [] value = "Exploring" -> "Exploring"
      [] OTHER -> value

\* decodeSource without its Walk_in case
decodeSource_NoWalkIn(value) == value

decodeSource(value) ==
    CASE value = "Walk_in" -> "Walk-in"
      [] OTHER -> value

\* every case of the status switch assigns the value to itself
decodeStatus(value) == value

----------------------------------------------------------------------------
(* zod (v3) parsing.  A schema applied to one key of an object gives a     *)
(* parse result: status "valid", "dirty" (issues were added, the value is  *)
(* kept and parsing goes on) or "aborted" (no value), or "throw" when user *)
(* code called by the schema throws (zod does not catch it).  has tells    *)
(* whether the output value is defined.                                    *)

Has(obj, key) == key \in DOMAIN obj

Issue(path, message) == [path |-> path, message |-> message]

Valid(v) == [status |-> "valid", has |-> TRUE, value |-> v, issues |-> <<>>]
ValidUndefined == [status |-> "valid", has |-> FALSE, issues |-> <<>>]
\* Dirty ending the parse like a failed enum does
Dirty_Aborting(v, issues) == [status |-> "aborted", has |-> FALSE, issues |-> issues]

Dirty(v, issues) == [status |-> "dirty", has |-> TRUE, value |-> v, issues |-> issues]
Aborted(issues) == [status |-> "aborted", has |-> FALSE, issues |-> issues]
Thrown == [status |-> "throw", has |-> FALSE, issues |-> <<>>]

\* z.string().min(min, minMsg).max(max, maxMsg)
zStringMinMax(obj, key, min, minMsg, max, maxMsg) ==
    IF ~Has(obj, key) THEN Aborted(<<Issue(key, "Required")>>)
    ELSE LET v == obj[key]
             issues == (IF Len(v) < min THEN <<Issue(key, minMsg)>> ELSE <<>>)
                       \o (IF Len(v) > max THEN <<Issue(key, maxMsg)>> ELSE <<>>)
         IN  IF issues = <<>> THEN Valid(v) ELSE Dirty(v, issues)

\* z.enum(values)
zEnum(obj, key, values) ==
    IF ~Has(obj, key) THEN Aborted(<<Issue(key, "Required")>>)
    ELSE IF obj[key] \notin values THEN Aborted(<<Issue(key, "Invalid enum value")>>)
    ELSE Valid(obj[key])

\* z.enum(values).optional()
zEnumOptional(obj, key, values) ==
    IF ~Has(obj, key) THEN ValidUndefined ELSE zEnum(obj, key, values)

\* z.string().email('Invalid email address').optional().or(z.literal('')):
\* the union returns the first valid option, else the first dirty one.
zEmail(obj, key) ==
    IF ~Has(obj, key) THEN ValidUndefined
    ELSE IF IsEmail(obj[key]) \/ obj[key] = "" THEN Valid(obj[key])
    ELSE Dirty(obj[key], <<Issue(key, "Invalid email address")>>)

\* The bhk transform of CsvRowSchema: blank is undefined, anything else goes
\* through transformBHK.parse, which throws a ZodError outside its enum.
csvBhk(obj, key) ==
    IF ~Has(obj, key) THEN ValidUndefined
    ELSE LET val == obj[key]
         IN  IF val = "" \/ trim(val) = "" THEN ValidUndefined
             ELSE IF val \in FormBHKEnum THEN Valid(transformBHK(val))
             ELSE Thrown

\* The budgetMin / budgetMax transform of CsvRowSchema.
csvBudget(obj, key) ==
    IF ~Has(obj, key) THEN ValidUndefined
    ELSE LET val == obj[key]
         IN  IF val = "" THEN ValidUndefined
             ELSE LET num == parseInt(val)
                  IN  IF num.nan THEN ValidUndefined ELSE Valid(num.num)

\* transformTimeline: the enum check, then the switch.
csvTimeline(obj, key) ==
    LET base == zEnum(obj, key, FormTimelineEnum)
    IN  IF base.status = "valid" THEN Valid(transformTimeline(base.value)) ELSE base

\* transformSource.optional()
csvSource(obj, key) ==
    LET base == zEnumOptional(obj, key, FormSourceEnum)
    IN  IF base.status = "valid" /\ base.has THEN Valid(transformSource(base.value)) ELSE base

\* z.string().max(1000, ...).optional()
csvNotes(obj, key) ==
    IF ~Has(obj, key) THEN ValidUndefined
    ELSE IF Len(obj[key]) > 1000
    THEN Dirty(obj[key], <<Issue(key, "Notes must be at most 1000 characters")>>)
    ELSE Valid(obj[key])

\* z.string().optional()
zStringOptional(obj, key) ==
    IF ~Has(obj, key) THEN ValidUndefined ELSE Valid(obj[key])

\* The shape of CsvRowSchema, in declaration order.
CsvRowShape == <<"fullName", "email", "phone", "city", "propertyType", "bhk", "purpose",
                 "budgetMin", "budgetMax", "timeline", "source", "notes", "tags", "status">>

\* the parse result of every key of the shape
csvRowFields(obj) ==
    [fullName |-> zStringMinMax(obj, "fullName", 2, "Full name must be at least 2 characters",
                                80, "Full name must be at most 80 characters"),
     email |-> zEmail(obj, "email"),
     phone |-> zStringMinMax(obj, "phone", 10, "Phone must be at least 10 digits",
                             15, "Phone must be at most 15 digits"),
     city |-> zEnum(obj, "city", CityEnum),
     propertyType |-> zEnum(obj, "propertyType", PropertyTypeEnum),
     bhk |-> csvBhk(obj, "bhk"),
     purpose |-> zEnum(obj, "purpose", PurposeEnum),
     budgetMin |-> csvBudget(obj, "budgetMin"),
     budgetMax |-> csvBudget(obj, "budgetMax"),
     timeline |-> csvTimeline(obj, "timeline"),
     source |-> csvSource(obj, "source"),
     notes |-> csvNotes(obj, "notes"),
     tags |-> zStringOptional(obj, "tags"),
     status |-> zEnumOptional(obj, "status", BuyerStatusEnum)]

RECURSIVE issuesOf(_, _, _)
\* the issues of the keys shape[k..], in order
issuesOf(r, shape, k) ==
    IF k > Len(shape) THEN <<>> ELSE r[shape[k]].issues \o issuesOf(r, shape, k + 1)

\* z.object(shape): every key is parsed (unknown keys are stripped), then the
\* results are merged: aborted if any is, else dirty if any is; undefined
\* values are left out of the output object.
csvRowObject(obj) ==
    With(csvRowFields(obj), LAMBDA r :
        IF \E key \in DOMAIN r : r[key].status = "throw" THEN Thrown
        ELSE LET issues == issuesOf(r, CsvRowShape, 1)
                 value == [key \in {x \in DOMAIN r : r[x].has} |-> r[key].value]
             IN  IF \E key \in DOMAIN r : r[key].status = "aborted" THEN Aborted(issues)
                 ELSE IF \E key \in DOMAIN r : r[key].status = "dirty" THEN Dirty(value, issues)
                 ELSE Valid(value))

\* bhkRefine with Villa forgotten
bhkRefine_ApartmentOnly(data) ==
    IF data.propertyType = "Apartment" THEN Has(data, "bhk") ELSE TRUE

\* First refinement of CsvRowSchema.
bhkRefine(data) ==
    IF data.propertyType = "Apartment" \/ data.propertyType = "Villa"
    THEN Has(data, "bhk")
    ELSE TRUE

\* JavaScript truthiness of an optional number.
truthy(data, key) == Has(data, key) /\ data[key] # 0

\* Second refinement of CsvRowSchema.
budgetRefine(data) ==
    IF truthy(data, "budgetMin") /\ truthy(data, "budgetMax")
    THEN data.budgetMin <= data.budgetMax
    ELSE TRUE

\* CsvRowSchema.safeParse(obj): [kind |-> "success", data |-> ...],
\* [kind |-> "failure", errors |-> <<issue, ...>>] or, when the call throws,
\* [kind |-> "throw"].  A refinement runs unless the schema inside aborted.
CsvRowSchema_safeParse(obj) ==
    With(csvRowObject(obj), LAMBDA o :
        IF o.status = "throw" THEN [kind |-> "throw"]
        ELSE IF o.status = "aborted" THEN [kind |-> "failure", errors |-> o.issues]
        ELSE LET bhkIssue ==
                     IF bhkRefine(o.value) THEN <<>>
                     ELSE <<Issue("bhk", "BHK is required for Apartment and Villa property types")>>
                 budgetIssue ==
                     IF budgetRefine(o.value) THEN <<>>
                     ELSE <<Issue("budgetMin",
                                  "Minimum budget must be less than or equal to maximum budget")>>
                 all == o.issues \o bhkIssue \o budgetIssue
             IN  IF all = <<>> THEN [kind |-> "success", data |-> o.value]
                 ELSE [kind |-> "failure", errors |-> all])

----------------------------------------------------------------------------
(* parseCsvContent.  lines is 1-based here, so the code's lines[i] is      *)
(* lines[i + 1]; row numbers are the code's i (the header is row 0).       *)

\* expectedHeaders without status
expectedHeaders_NoStatus == <<"fullName", "email", "phone", "city", "propertyType",
                              "bhk", "purpose", "budgetMin", "budgetMax", "timeline",
                              "source", "notes", "tags">>

expectedHeaders == <<"fullName", "email", "phone", "city", "propertyType",
                     "bhk", "purpose", "budgetMin", "budgetMax", "timeline",
                     "source", "notes", "tags", "status">>

RECURSIVE headerErrorsFrom(_, _)
\* one message for each expected header, from the k-th on, that headers lacks
headerErrorsFrom(headers, k) ==
    IF k > Len(expectedHeaders) THEN <<>>
    ELSE (IF ~includes(headers, expectedHeaders[k])
          THEN <<"Missing required column: " \o expectedHeaders[k]>>
          ELSE <<>>) \o headerErrorsFrom(headers, k + 1)

headerErrorsOf(headers) == headerErrorsFrom(headers, 1)

\* if (!line) continue, for line = lines[i].trim()
skipLine(rawLine) == trim(rawLine) = ""

\* rowData[headers[j]] = values[j] || '': a later column of the same name wins.
rowDataOf(headers, values) ==
    [h \in {headers[j] : j \in 1..Len(headers)} |->
        LET j == CHOOSE j \in 1..Len(headers) :
                     /\ headers[j] = h
                     /\ \A k \in (j + 1)..Len(headers) : headers[k] # h
        IN  IF j <= Len(values) THEN values[j] ELSE ""]

\* err => `${err.path.join('.')}: ${err.message}`
RECURSIVE errorStrings(_)
errorStrings(issues) ==
    IF issues = <<>> THEN <<>>
    ELSE <<Head(issues).path \o ": " \o Head(issues).message>> \o errorStrings(Tail(issues))

\* totalRowsOf counting the header line too
totalRowsOf_AllLines(lines) == Len(lines)

\* totalRows of both the header-abort result and the final result
totalRowsOf(lines) == Len(lines) - 1

RECURSIVE invalidRowsOf_Messages(_)
\* invalidRowsOf counting the error messages instead of the entries
invalidRowsOf_Messages(errors) ==
    IF errors = <<>> THEN 0 ELSE Len(Head(errors).errors) + invalidRowsOf_Messages(Tail(errors))

\* invalidRows of the final result
invalidRowsOf(errors) == Len(errors)

\* validRows of the final result
validRowsOf(validData) == Len(validData)

\* lines 62-71: the line tokenized, zipped against the headers and validated
validateLine(headers, line) ==
    With(parseCsvLine(line), LAMBDA values :
        With(rowDataOf(headers, values), LAMBDA row : CsvRowSchema_safeParse(row)))

\* rowError numbering the lines from 1 at the header
rowError_HeaderIsOne(i, issues) == [row |-> i + 1, errors |-> errorStrings(issues)]

\* lines 76-79: the error entry of row i
rowError(i, issues) == [row |-> i, errors |-> errorStrings(issues)]

RECURSIVE parseRows(_, _, _, _, _)
\* the loop over the data rows from row i on: what it has collected when it
\* ends, or threw when the validation of a row throws
parseRows(lines, headers, i, validData, errors) ==
    IF ~(i < Len(lines)) THEN [threw |-> FALSE, validData |-> validData, errors |-> errors]
    ELSE IF skipLine(lines[i + 1]) THEN parseRows(lines, headers, i + 1, validData, errors)
    ELSE With(validateLine(headers, trim(lines[i + 1])), LAMBDA res :
             IF res.kind = "throw" THEN [threw |-> TRUE]
             ELSE IF res.kind = "success"
             THEN parseRows(lines, headers, i + 1, Append(validData, res.data), errors)
             ELSE parseRows(lines, headers, i + 1, validData,
                            Append(errors, rowError(i, res.errors))))

\* the header-abort return
headerAbort(lines, headerErrors) ==
    [kind |-> "return", success |-> FALSE,
     errors |-> <<[row |-> 0, errors |-> headerErrors]>>,
     totalRows |-> totalRowsOf(lines), validRows |-> 0, invalidRows |-> 0]

\* finalResult keeping the records only when every row validated
finalResult_AllOrNothing(lines, validData, errors) ==
    [kind |-> "return", success |-> Len(errors) = 0,
     data |-> IF Len(errors) > 0 THEN <<>> ELSE validData,
     errors |-> errors,
     totalRows |-> totalRowsOf(lines),
     validRows |-> validRowsOf(validData),
     invalidRows |-> invalidRowsOf(errors)]

\* the final return
finalResult(lines, validData, errors) ==
    IF Len(errors) > 0
    THEN [kind |-> "return", success |-> FALSE,
          data |-> validData, errors |-> errors,
          totalRows |-> totalRowsOf(lines),
          validRows |-> validRowsOf(validData),
          invalidRows |-> invalidRowsOf(errors)]
    ELSE [kind |-> "return", success |-> TRUE,
          data |-> validData,
          totalRows |-> totalRowsOf(lines),
          validRows |-> validRowsOf(validData),
          invalidRows |-> invalidRowsOf(errors)]

\* parseCsvContent(csvContent): [kind |-> "return", ...the CsvImportResult] with
\* data / errors absent where the code leaves them undefined, or
\* [kind |-> "throw"] when the call ends in an exception.
parseCsvContent(content) ==
    With(split(trim(content), "\n"), LAMBDA lines :
        IF Len(lines) = 0
        THEN [kind |-> "return", success |-> FALSE,
              errors |-> <<[row |-> 0, errors |-> <<"CSV file is empty">>]>>,
              totalRows |-> 0, validRows |-> 0, invalidRows |-> 0]
        ELSE
          With(parseCsvLine(lines[1]), LAMBDA headers :
              With(headerErrorsOf(headers), LAMBDA headerErrors :
                  IF Len(headerErrors) > 0 THEN headerAbort(lines, headerErrors)
                  ELSE With(parseRows(lines, headers, 1, <<>>, <<>>), LAMBDA loop :
                           IF loop.threw THEN [kind |-> "throw"]
                           ELSE finalResult(lines, loop.validData, loop.errors)))))

----------------------------------------------------------------------------
(* generateCsvContent: the quoting of one cell.                            *)

\* stringValue.replace(/"/g, '""') from position i on
doubleQuotes[s \in STRING, i \in Nat] ==
    IF i > Len(s) THEN ""
    ELSE (IF CharAt(s, i) = "\"" THEN "\"\"" ELSE CharAt(s, i)) \o doubleQuotes[s, i + 1]

\* csvCell that takes a newline for an ordinary character
csvCell_NoNewline(stringValue) ==
    IF strIncludes(stringValue, ",") \/ strIncludes(stringValue, "\"")
    THEN "\"" \o doubleQuotes[stringValue, 1] \o "\""
    ELSE stringValue

\* the cell written for stringValue
csvCell(stringValue) ==
    IF \/ strIncludes(stringValue, ",")
       \/ strIncludes(stringValue, "\"")
       \/ strIncludes(stringValue, "\n")
    THEN "\"" \o doubleQuotes[stringValue, 1] \o "\""
    ELSE stringValue

----------------------------------------------------------------------------
(* RateLimiter and withRateLimit.  requests is the Map of the instance, a  *)
(* function from the identifiers it holds to their entries.                *)

\* the instances: windowMs and maxRequests of the constructor calls
RateLimiters ==
    [createRateLimiter |-> [windowMs |-> 15 * 60 * 1000, maxRequests |-> 20],
     updateRateLimiter |-> [windowMs |-> 15 * 60 * 1000, maxRequests |-> 30],
     importRateLimiter |-> [windowMs |-> 60 * 60 * 1000, maxRequests |-> 5]]

\* !entry || now > entry.resetTime
noLiveEntry(map, identifier, now) ==
    identifier \notin DOMAIN map \/ now > map[identifier].resetTime

\* entry.count >= this.maxRequests
limitReached_OffByOne(entry, maxRequests) == entry.count > maxRequests

limitReached(entry, maxRequests) == entry.count >= maxRequests

\* this.requests.set(identifier, entry)
mapSet(map, identifier, entry) ==
    [k \in DOMAIN map \cup {identifier} |-> IF k = identifier THEN entry ELSE map[k]]

\* isAllowed with the denied calls counted as well
isAllowed_CountsDenied(self, map, identifier, now) ==
    IF noLiveEntry(map, identifier, now)
    THEN [allowed |-> TRUE,
          requests |-> mapSet(map, identifier,
                              [count |-> 1, resetTime |-> now + self.windowMs])]
    ELSE [allowed |-> ~limitReached(map[identifier], self.maxRequests),
          requests |-> mapSet(map, identifier,
                              [count |-> map[identifier].count + 1,
                               resetTime |-> map[identifier].resetTime])]

\* isAllowed(identifier) at time now: [allowed, requests]
isAllowed(self, map, identifier, now) ==
    IF noLiveEntry(map, identifier, now)
    THEN [allowed |-> TRUE,
          requests |-> mapSet(map, identifier,
                              [count |-> 1, resetTime |-> now + self.windowMs])]
    ELSE IF limitReached(map[identifier], self.maxRequests)
    THEN [allowed |-> FALSE, requests |-> map]
    ELSE [allowed |-> TRUE,
          requests |-> mapSet(map, identifier,
                              [count |-> map[identifier].count + 1,
                               resetTime |-> map[identifier].resetTime])]

\* Math.max(0, x)
max0(x) == IF x < 0 THEN 0 ELSE x

\* getRemainingRequests(identifier) at time now
getRemainingRequests(self, map, identifier, now) ==
    IF noLiveEntry(map, identifier, now) THEN self.maxRequests
    ELSE max0(self.maxRequests - map[identifier].count)

\* getResetTime(identifier) at time now
getResetTime(self, map, identifier, now) ==
    IF noLiveEntry(map, identifier, now) THEN now + self.windowMs
    ELSE map[identifier].resetTime

----------------------------------------------------------------------------
(* The import endpoints: POST handlers that parse the uploaded file with   *)
(* parseCsvContent and insert the records into the Buyer table.            *)

\* the per-row import, the bulk import, the transactional bulk import and
\* the raw-SQL import
ImportEndpoints == {"import", "bulkImport", "bulkImportTransactional", "ultraFastImport"}

\* parseResult.data.length > 200
MaxImportRows == 200

\* the session users of the requests, "none" for a request without session
Users == {"user1", "admin"}
Sessions == Users \cup {"none"}

\* NextResponse.json(..., {status}) of a handler
Json(handler, status, error) == [handler |-> handler, status |-> status, error |-> error]

\* the parse of an uploaded file.  A file of kind "rows" is the document of
\* file.header followed by file.rows copies of the valid line file.line; it
\* is kept symbolic and its result is built by the parser's final return.
parseUpload(file) ==
    IF file.kind = "text" THEN parseCsvContent(file.content)
    ELSE With(validateLine(parseCsvLine(file.header), file.line).data, LAMBDA rec :
             finalResult([k \in 1..(file.rows + 1) |-> IF k = 1 THEN file.header ELSE file.line],
                         [k \in 1..file.rows |-> rec], <<>>))

\* the first rejection of a parse result: !parseResult.success ||
\* !parseResult.data, and !parseResult.success in the transactional endpoint
validationFailed(endpoint, parseResult) ==
    IF endpoint = "bulkImportTransactional" THEN ~parseResult.success
    ELSE ~parseResult.success \/ ~Has(parseResult, "data")

\* the transactional endpoint's second rejection: no valid rows
noValidRows(endpoint, parseResult) ==
    /\ endpoint = "bulkImportTransactional"
    /\ ~Has(parseResult, "data") \/ Len(parseResult.data) = 0

\* tooManyRows without a ceiling
tooManyRows_NoCeiling(data) == FALSE

\* the row ceiling of every endpoint
tooManyRows(data) == Len(data) > MaxImportRows

\* a JavaScript-falsy optional value of a record: absent, '' or 0
falsy(rec, key) ==
    \/ ~Has(rec, key)
    \/ IF key \in {"budgetMin", "budgetMax"} THEN rec[key] = 0 ELSE rec[key] = ""

\* the row the raw-SQL import writes for a record: NULL for the falsy
\* optional values, status New when the record has none
rawSqlRow(rec) ==
    LET optional == {"email", "bhk", "budgetMin", "budgetMax", "source", "notes", "tags"}
        kept == {k \in DOMAIN rec : k \notin optional \/ ~falsy(rec, k)} \cup {"status"}
    IN  [k \in kept |-> IF k = "status" /\ falsy(rec, "status") THEN "New" ELSE rec[k]]

\* the Buyer row inserted for a record: the record, its owner, a fresh id and
\* the creation time
newBuyer(endpoint, rec, ownerId, id, now) ==
    LET fields == IF endpoint = "ultraFastImport" THEN rawSqlRow(rec) ELSE rec
    IN  [k \in DOMAIN fields \cup {"id", "ownerId", "createdAt", "updatedAt"} |->
            CASE k = "id" -> id
              [] k = "ownerId" -> ownerId
              [] k \in {"createdAt", "updatedAt"} -> now
              [] OTHER -> fields[k]]

\* the table after the insertion of the records of data
insertAll(endpoint, table, data, ownerId, now) ==
    table \o [k \in 1..Len(data) |-> newBuyer(endpoint, data[k], ownerId, Len(table) + k, now)]

\* POST of an import endpoint: [response, buyers]
importHandler(endpoint, session, allowed, hasFile, file, table, now) ==
    IF session = "none" THEN [response |-> Json(endpoint, 401, "Unauthorized"), buyers |-> table]
    ELSE IF ~allowed
    THEN [response |-> Json(endpoint, 429, "Too many requests"), buyers |-> table]
    ELSE IF ~hasFile
    THEN [response |-> Json(endpoint, 400, "No file provided"), buyers |-> table]
    ELSE With(parseUpload(file), LAMBDA parseResult :
        IF parseResult.kind = "throw"
        THEN [response |-> Json(endpoint, 500, "Failed to import buyers"), buyers |-> table]
        ELSE IF validationFailed(endpoint, parseResult)
        THEN [response |-> Json(endpoint, 400, "CSV validation failed"), buyers |-> table]
        ELSE IF noValidRows(endpoint, parseResult)
        THEN [response |-> Json(endpoint, 400, "No valid rows to import"), buyers |-> table]
        ELSE IF tooManyRows(parseResult.data)
        THEN [response |-> Json(endpoint, 400, "Too many rows. Maximum 200 rows allowed."),
              buyers |-> table]
        ELSE IF endpoint = "ultraFastImport" /\ Len(parseResult.data) = 0
        THEN [response |-> Json(endpoint, 500, "Failed to import buyers"), buyers |-> table]
        ELSE [response |-> Json(endpoint, 200, ""),
              buyers |-> insertAll(endpoint, table, parseResult.data, session, now)])

----------------------------------------------------------------------------
(* The schemas of the create and update requests.  parse throws a ZodError *)
(* when the body has an issue, which the handlers answer with 400, so a    *)
(* parse is [success |-> FALSE] or [success |-> TRUE, data |-> ...].       *)

\* JavaScript's null (no token of an enumeration equals it)
null == "null"

\* the keys of obj among keys: z.object strips the keys it does not know
strip(obj, keys) == [k \in DOMAIN obj \cap keys |-> obj[k]]

\* schema.optional() on a key
optionalOk(obj, key, Ok(_)) == ~Has(obj, key) \/ Ok(obj[key])

\* z.string().min(min).max(max)
lengthOk(v, min, max) == Len(v) >= min /\ Len(v) <= max

\* z.number().positive()
positiveOk(v) == v > 0

BaseBuyerKeys ==
    {"fullName", "email", "phone", "city", "propertyType", "bhk", "purpose",
     "budgetMin", "budgetMax", "timeline", "source", "notes", "tags"}

\* The shape of BaseBuyerSchema, in declaration order.
BaseBuyerShape == <<"fullName", "email", "phone", "city", "propertyType", "bhk", "purpose",
                    "budgetMin", "budgetMax", "timeline", "source", "notes", "tags">>

\* z.number().positive().optional()
zPositiveOptional(obj, key) ==
    IF ~Has(obj, key) THEN ValidUndefined
    ELSE IF positiveOk(obj[key]) THEN Valid(obj[key])
    ELSE Dirty(obj[key], <<Issue(key, "Number must be greater than 0")>>)

\* the parse result of every key of BaseBuyerSchema
baseBuyerFields(obj) ==
    [fullName |-> zStringMinMax(obj, "fullName", 2, "Full name must be at least 2 characters",
                                80, "Full name must be at most 80 characters"),
     email |-> zEmail(obj, "email"),
     phone |-> zStringMinMax(obj, "phone", 10, "Phone must be at least 10 digits",
                             15, "Phone must be at most 15 digits"),
     city |-> zEnum(obj, "city", CityEnum),
     propertyType |-> zEnum(obj, "propertyType", PropertyTypeEnum),
     bhk |-> zEnumOptional(obj, "bhk", FormBHKEnum),
     purpose |-> zEnum(obj, "purpose", PurposeEnum),
     budgetMin |-> zPositiveOptional(obj, "budgetMin"),
     budgetMax |-> zPositiveOptional(obj, "budgetMax"),
     timeline |-> zEnum(obj, "timeline", FormTimelineEnum),
     source |-> zEnumOptional(obj, "source", FormSourceEnum),
     notes |-> IF Has(obj, "notes") /\ Len(obj.notes) > 1000
               THEN Dirty(obj.notes, <<Issue("notes", "Notes must be less than 1000 characters")>>)
               ELSE zStringOptional(obj, "notes"),
     tags |-> zStringOptional(obj, "tags")]

\* BaseBuyerSchema: the object parse, merged like that of CsvRowSchema
baseBuyerObject(obj) ==
    With(baseBuyerFields(obj), LAMBDA r :
        LET issues == issuesOf(r, BaseBuyerShape, 1)
            value == [key \in {x \in DOMAIN r : r[x].has} |-> r[key].value]
        IN  IF \E key \in DOMAIN r : r[key].status = "aborted" THEN Aborted(issues)
            ELSE IF \E key \in DOMAIN r : r[key].status = "dirty" THEN Dirty(value, issues)
            ELSE Valid(value))

\* CreateBuyerFormSchema.safeParse(obj): BaseBuyerSchema and the two
\* refinements, which are the ones of CsvRowSchema word for word and run
\* unless the object aborted
CreateBuyerFormSchema_safeParse(obj) ==
    With(baseBuyerObject(obj), LAMBDA o :
        IF o.status = "aborted" THEN [kind |-> "failure", errors |-> o.issues]
        ELSE LET bhkIssue ==
                     IF bhkRefine(o.value) THEN <<>>
                     ELSE <<Issue("bhk", "BHK is required for Apartment and Villa property types")>>
                 budgetIssue ==
                     IF budgetRefine(o.value) THEN <<>>
                     ELSE <<Issue("budgetMin",
                                  "Minimum budget must be less than or equal to maximum budget")>>
                 all == o.issues \o bhkIssue \o budgetIssue
             IN  IF all = <<>> THEN [kind |-> "success", data |-> o.value]
                 ELSE [kind |-> "failure", errors |-> all])

\* createTransform leaving the source as the form wrote it
createTransform_NoSource(data) ==
    [k \in DOMAIN data |->
        CASE k = "timeline" -> transformTimeline(data[k])
          [] k = "bhk" /\ data[k] # "" -> transformBHK(data[k])
          [] OTHER -> data[k]]

\* the transform of CreateBuyerSchema
createTransform(data) ==
    [k \in DOMAIN data |->
        CASE k = "timeline" -> transformTimeline(data[k])
          [] k = "bhk" /\ data[k] # "" -> transformBHK(data[k])
          [] k = "source" /\ data[k] # "" -> transformSource(data[k])
          [] OTHER -> data[k]]

\* CreateBuyerSchema.safeParse(obj): the transform runs on a valid result of
\* CreateBuyerFormSchema, whose failure is returned as it is
CreateBuyerSchema_safeParse(obj) ==
    With(CreateBuyerFormSchema_safeParse(obj), LAMBDA form :
        IF form.kind = "success"
        THEN [kind |-> "success", data |-> createTransform(form.data)]
        ELSE form)

\* CreateBuyerSchema.parse(body), which throws the ZodError of a failure
CreateBuyerSchema_parse(body) ==
    With(CreateBuyerSchema_safeParse(body), LAMBDA out :
        IF out.kind = "success"
        THEN [success |-> TRUE, data |-> out.data]
        ELSE [success |-> FALSE])

UpdateBuyerKeys == BaseBuyerKeys \cup {"id", "updatedAt", "status"}

\* UpdateBuyerFormSchema: every field optional, bhk nullable as well.  A
\* datetime string is the time it denotes.
UpdateBuyerFormSchema_ok(obj) ==
    /\ optionalOk(obj, "fullName", LAMBDA v : lengthOk(v, 2, 80))
    /\ optionalOk(obj, "email", LAMBDA v : v = "" \/ IsEmail(v))
    /\ optionalOk(obj, "phone", LAMBDA v : lengthOk(v, 10, 15))
    /\ optionalOk(obj, "city", LAMBDA v : v \in CityEnum)
    /\ optionalOk(obj, "propertyType", LAMBDA v : v \in PropertyTypeEnum)
    /\ optionalOk(obj, "bhk", LAMBDA v : v = null \/ v \in FormBHKEnum)
    /\ optionalOk(obj, "purpose", LAMBDA v : v \in PurposeEnum)
    /\ optionalOk(obj, "budgetMin", positiveOk)
    /\ optionalOk(obj, "budgetMax", positiveOk)
    /\ optionalOk(obj, "timeline", LAMBDA v : v \in FormTimelineEnum)
    /\ optionalOk(obj, "source", LAMBDA v : v \in FormSourceEnum)
    /\ optionalOk(obj, "notes", LAMBDA v : Len(v) <= 1000)
    /\ optionalOk(obj, "status", LAMBDA v : v \in BuyerStatusEnum)

\* the transform of UpdateBuyerSchema: the tokens of the fields supplied,
\* bhk whenever it is not undefined (null stays null), without id and
\* updatedAt
updateTransform(data) ==
    [k \in (DOMAIN data) \ {"id", "updatedAt"} |->
        CASE k = "timeline" -> transformTimeline(data[k])
          [] k = "bhk" -> transformBHK(data[k])
          [] k = "source" /\ data[k] # "" -> transformSource(data[k])
          [] OTHER -> data[k]]

\* first refinement of UpdateBuyerSchema, on the transformed partial map
updateBhkRefine(data) ==
    IF Has(data, "propertyType")
       /\ (data.propertyType = "Apartment" \/ data.propertyType = "Villa")
    THEN Has(data, "bhk")
    ELSE TRUE

\* UpdateBuyerSchema.parse(body); the second refinement is budgetRefine
UpdateBuyerSchema_parse(body) ==
    LET obj == strip(body, UpdateBuyerKeys)
    IN  IF UpdateBuyerFormSchema_ok(obj)
           /\ updateBhkRefine(updateTransform(obj))
           /\ budgetRefine(updateTransform(obj))
        THEN [success |-> TRUE, data |-> updateTransform(obj)]
        ELSE [success |-> FALSE]

----------------------------------------------------------------------------
(* POST /api/buyers and PATCH /api/buyers/[id].  A buyer's id is its place *)
(* in the Buyer table.  The Prisma schema is not among the sources:        *)
(* Buyer.updatedAt is taken to be an @updatedAt column, set by every       *)
(* update, which is what the concurrency check of PATCH relies on.         *)

\* User.role
role(user) == IF user = "admin" THEN "ADMIN" ELSE "USER"

\* POST /api/buyers: [response, buyers]
createHandler(session, allowed, body, table, now) ==
    IF session = "none" THEN [response |-> Json("create", 401, "Unauthorized"), buyers |-> table]
    ELSE IF ~allowed
    THEN [response |-> Json("create", 429, "Too many requests"), buyers |-> table]
    ELSE LET validatedData == CreateBuyerSchema_parse(body)
         IN  IF ~validatedData.success
             THEN [response |-> Json("create", 400, "Validation failed"), buyers |-> table]
             ELSE [response |-> Json("create", 201, ""),
                   buyers |-> insertAll("create", table, <<validatedData.data>>, session, now)]

\* prisma.buyer.findUnique({where: {id}}): the row, if there is one
findUnique(table, id) == SelectSeq(table, LAMBDA row : row.id = id)

\* the owner check that lets every user but the admins through
forbidden_NotAdmin(existingBuyer, session) ==
    existingBuyer.ownerId # session /\ role(session) = "ADMIN"

\* the owner check of PATCH and of DELETE
forbidden(existingBuyer, session) ==
    existingBuyer.ownerId # session /\ role(session) # "ADMIN"

\* the concurrency check of PATCH; body.updatedAt is a datetime string (never
\* empty, so truthy when present), read here as the time it denotes
conflict(body, existingBuyer) ==
    Has(body, "updatedAt") /\ body.updatedAt < existingBuyer.updatedAt

\* prisma.buyer.update({where: {id}, data}) at time now
update(table, id, data, now) ==
    [j \in 1..Len(table) |->
        IF table[j].id # id THEN table[j]
        ELSE [k \in DOMAIN table[j] \cup DOMAIN data |->
                 IF k = "updatedAt" THEN now
                 ELSE IF k \in DOMAIN data THEN data[k]
                 ELSE table[j][k]]]

\* prisma.buyer.delete({where: {id}})
delete(table, id) == SelectSeq(table, LAMBDA row : row.id # id)

\* the order of Object.entries(validatedData): the order of the schema's keys
KeyOrder ==
    <<"fullName", "email", "phone", "city", "propertyType", "bhk", "purpose",
      "budgetMin", "budgetMax", "timeline", "source", "notes", "tags", "status">>

toString[n \in Nat] ==
    IF n < 10 THEN Digits[n + 1] ELSE toString[n \div 10] \o Digits[(n % 10) + 1]

\* whether the value of a key is null (the budgets are numbers)
isNull(key, value) == key \notin {"budgetMin", "budgetMax"} /\ value = null

\* value ? String(value) : null
stringOrNull(key, value) ==
    IF isNull(key, value) THEN null
    ELSE IF key \in {"budgetMin", "budgetMax"}
    THEN (IF value = 0 THEN null ELSE toString[value])
    ELSE (IF value = "" THEN null ELSE value)

\* oldValue !== newValue, for a column of the row read (NULL when the row
\* holds no value) and a value supplied
changed(key, oldBuyer, data) ==
    IF Has(oldBuyer, key) THEN oldBuyer[key] # data[key] ELSE ~isNull(key, data[key])

\* the history entries PATCH writes
historyEntries(id, oldBuyer, data, session) ==
    LET keys == SelectSeq(KeyOrder, LAMBDA k : Has(data, k) /\ changed(k, oldBuyer, data))
    IN  [j \in 1..Len(keys) |->
            [buyerId |-> id, field |-> keys[j],
             oldValue |-> IF Has(oldBuyer, keys[j])
                          THEN stringOrNull(keys[j], oldBuyer[keys[j]]) ELSE null,
             newValue |-> stringOrNull(keys[j], data[keys[j]]),
             changedBy |-> session]]

----------------------------------------------------------------------------
(* The field codec: import-side encode (the transform schemas) and         *)
(* export-side decode (generateCsvContent).                                *)

CodecFields == {"timeline", "bhk", "source", "status"}

\* the user-facing tokens of a field (what the transform schema's enum admits)
UserTokens(field) ==
    CASE field = "timeline" -> FormTimelineEnum
      [] field = "bhk" -> FormBHKEnum
      [] field = "source" -> FormSourceEnum
      [] field = "status" -> BuyerStatusEnum

\* the canonical tokens of a field
CanonicalTokens(field) ==
    CASE field = "timeline" -> TimelineEnum
      [] field = "bhk" -> BHKEnum
      [] field = "source" -> SourceEnum
      [] field = "status" -> BuyerStatusEnum

\* import side: what the field's schema makes of an admitted token
encode(field, token) ==
    CASE field = "timeline" -> transformTimeline(token)
      [] field = "bhk" -> transformBHK(token)
      [] field = "source" -> transformSource(token)
      [] field = "status" -> token

\* export side: what generateCsvContent writes for a stored token
decode(field, token) ==
    CASE field = "timeline" -> decodeTimeline(token)
      [] field = "bhk" -> decodeBhk(token)
      [] field = "source" -> decodeSource(token)
      [] field = "status" -> decodeStatus(token)

\* the columns generateCsvContent writes
exportHeaders ==
    <<"fullName", "email", "phone", "city", "propertyType", "bhk", "purpose", "budgetMin",
      "budgetMax", "timeline", "source", "notes", "tags", "status", "createdAt", "updatedAt">>

\* String(value) of the value a column holds, after the switch of the
\* enumerated columns; the budgets are numbers
stringValueOf(header, value) ==
    IF header \in {"bhk", "timeline", "source", "status"} THEN decode(header, value)
    ELSE IF header \in {"budgetMin", "budgetMax"} THEN toString[value]
    ELSE value

\* the cell generateCsvContent writes for a column of a row: empty for null
\* and undefined
generateCell(row, header) ==
    IF ~Has(row, header) \/ isNull(header, row[header]) THEN ""
    ELSE csvCell(stringValueOf(header, row[header]))

\* the line generateCsvContent writes for a row
generateLine(row) ==
    join([j \in 1..Len(exportHeaders) |-> generateCell(row, exportHeaders[j])], ",")

\* generateCsvContent(data): the header line and one line for each row
generateCsvContent(data) ==
    IF Len(data) = 0 THEN ""
    ELSE join(<<join(exportHeaders, ",")>> \o [k \in 1..Len(data) |-> generateLine(data[k])],
              "\n")

----------------------------------------------------------------------------
(* Inputs.                                                                 *)

\* the characters of the field values and lines handed to the tokenizer
Alphabet == {"a", ",", "\"", "\n", " "}

MaxFieldLen == 3
MaxLineLen == 4

RECURSIVE StringsUpTo(_)
\* the strings over Alphabet of length n or less
StringsUpTo(n) ==
    IF n = 0 THEN {""}
    ELSE LET shorter == StringsUpTo(n - 1)
         IN  shorter \cup {s \o c : s \in shorter, c \in Alphabet}

\* field values with a comma, a double quote or a newline
FieldValues ==
    {v \in StringsUpTo(MaxFieldLen) :
        strIncludes(v, ",") \/ strIncludes(v, "\"") \/ strIncludes(v, "\n")}

\* the lines handed to parseCsvLine
Lines == StringsUpTo(MaxLineLen)

\* an optional property of a raw object: <<>> (absent) or <<v>>
Opt(S) == {<<>>} \cup {<<v>> : v \in S}

\* obj with key set to the value of choice, or without key when choice is <<>>
withKey(obj, key, choice) ==
    [k \in (IF choice = <<>> THEN DOMAIN obj \ {key} ELSE DOMAIN obj \cup {key}) |->
        IF k = key THEN choice[1] ELSE obj[k]]

\* the valid row of the schema's tests
BaseRow ==
    [fullName |-> "John Doe", email |-> "john@example.com", phone |-> "1234567890",
     city |-> "Chandigarh", propertyType |-> "Apartment", bhk |-> "2", purpose |-> "Buy",
     budgetMin |-> "5000000", budgetMax |-> "8000000", timeline |-> "0-3m",
     source |-> "Website", notes |-> "Interested in 2BHK apartment", tags |-> "premium,urgent"]

PropertyTypeCells == Opt(PropertyTypeEnum \cup {"INVALID_TYPE"}) \ {<<>>}
BhkCells == Opt({"", " ", "2", "Studio", "5"})
BudgetCells == Opt({"", "0", "5", "10", "-3", "12abc"})

\* one more field of the row changed: <<key, choice>>
OtherCells ==
    {<<"email", c>> : c \in Opt({"", "invalid-email"})}
    \cup {<<"fullName", c>> : c \in {<<"J">>}}
    \cup {<<"source", c>> : c \in Opt({"", "Walk-in", "Bogus"})}
    \cup {<<"status", c>> : c \in Opt({"", "New"})}
    \cup {<<"city", c>> : c \in Opt({"Pune"})}

\* a field of the row with a structural error: <<key, choice>>
StructuralErrorCells ==
    {<<"email", <<"invalid-email">> >>, <<"fullName", <<"J">> >>, <<"phone", <<"12345">> >>,
     <<"city", <<"Pune">> >>, <<"purpose", <<"Lease">> >>, <<"timeline", <<"1y">> >>}

\* the raw rows handed to CsvRowSchema.safeParse
RawRows ==
    {withKey(withKey(withKey(withKey(BaseRow, "propertyType", pt), "bhk", bhk),
                     "budgetMin", bmin), "budgetMax", bmax) :
        pt \in PropertyTypeCells, bhk \in BhkCells, bmin \in BudgetCells, bmax \in BudgetCells}
    \cup
    {withKey(withKey(withKey(BaseRow, "propertyType", pt), "bhk", bhk), o[1], o[2]) :
        pt \in PropertyTypeCells, bhk \in BhkCells, o \in OtherCells}
    \cup
    {withKey(withKey(withKey(withKey(withKey(BaseRow, "propertyType", pt), "bhk", bhk),
                             "budgetMin", <<"10">>), "budgetMax", <<"5">>), o[1], o[2]) :
        pt \in PropertyTypeCells, bhk \in BhkCells, o \in StructuralErrorCells}

\* the import header of the documentation, the header of the parser's tests
\* (no status), the header with missing columns of the tests, the export
\* header, and no header at all
Header14 == "fullName,email,phone,city,propertyType,bhk,purpose,budgetMin,budgetMax,timeline,source,notes,tags,status"
Header13 == "fullName,email,phone,city,propertyType,bhk,purpose,budgetMin,budgetMax,timeline,source,notes,tags"
Header7 == "fullName,email,phone,city,propertyType,purpose,timeline"
Header16 == Header14 \o ",createdAt,updatedAt"
Headers == {Header14, Header13, Header7, Header16, ""}

\* data lines: two valid rows, a row with an invalid e-mail and its budgets
\* out of order, a row whose bhk is no BHK token, a row whose only blank
\* enumerated cell is source, and a blank line
LineApartment == "John Doe,john@example.com,1234567890,Mohali,Apartment,2,Buy,5,10,0-3m,Website,\"2BHK, premium\",vip,New"
LinePlot == "Jane Smith,,9876543210,Other,Plot,,Rent,,,>6m,Walk-in,,,Qualified"
LineBadEmail == "Al Bo,invalid-email,1234567890,Other,Villa,,Buy,10,5,3-6m,Call,,,New"
LineBadBhk == "Al Bo,,1234567890,Other,Office,5,Buy,,,3-6m,Call,,,New"
LineNoSource == "Jane Smith,jane@example.com,9876543210,Mohali,Plot,,Buy,,,3-6m,,,,New"
DataLines == {LineApartment, LinePlot, LineBadEmail, LineBadBhk, LineNoSource, ""}
ReplacementLines == {LinePlot, LineBadEmail, LineBadBhk, ""}

\* the most data lines of a document
MaxDataLines == 3

RECURSIVE SeqsUpTo(_, _)
\* the sequences over S of length at most n
SeqsUpTo(S, n) ==
    IF n = 0 THEN {<<>>}
    ELSE LET shorter == SeqsUpTo(S, n - 1)
         IN  shorter \cup {Append(q, x) : q \in {t \in shorter : Len(t) = n - 1}, x \in S}

\* a row whose budget cells are a zero and a negative number
LineBudgets == "Jane Smith,,9876543210,Other,Plot,,Rent,0,-3,>6m,Walk-in,,,Qualified"

\* the documents handed to parseCsvContent
Documents ==
    {join(<<h>> \o body, "\n") : h \in Headers, body \in SeqsUpTo(DataLines, MaxDataLines)}
    \cup {join(<<Header14, LineBudgets>>, "\n")}

\* the uploaded files: the documents with the import header, the document of
\* the parser's test (no status column), and documents of many copies of one
\* valid line
BulkRows == {199, 200, 201}
Uploads ==
    {[kind |-> "text", content |-> join(<<Header14>> \o body, "\n")] :
        body \in SeqsUpTo(DataLines, MaxDataLines)}
    \cup {[kind |-> "text", content |-> join(<<Header13, LineApartment>>, "\n")]}
    \cup {[kind |-> "rows", header |-> Header14, line |-> LinePlot, rows |-> n] : n \in BulkRows}

\* the fields of a valid create request, but for the ones the bodies set
CreateBase ==
    [fullName |-> "John Doe", phone |-> "1234567890", city |-> "Mohali",
     purpose |-> "Buy", timeline |-> "0-3m"]

\* obj with the keys of more added or replaced
merge(obj, more) ==
    [k \in DOMAIN obj \cup DOMAIN more |-> IF k \in DOMAIN more THEN more[k] ELSE obj[k]]

\* the bodies handed to the create schemas: every pair of a property type
\* and a bhk, the timelines and sources of the forms and one that is none,
\* budgets in and out of order and a zero, and text fields with an issue
CreateInputs ==
    {merge(CreateBase,
           withKey(withKey(merge(merge([propertyType |-> propertyType, timeline |-> timeline],
                                       budgets), text),
                           "bhk", bhk), "source", source)) :
        propertyType \in {"Apartment", "Plot"},
        bhk \in Opt(FormBHKEnum \cup {"5"}),
        timeline \in FormTimelineEnum \cup {"1y"},
        source \in Opt({"Website", "Walk-in", "Fax"}),
        budgets \in {<<>>, [budgetMin |-> 5, budgetMax |-> 10],
                     [budgetMin |-> 10, budgetMax |-> 5], [budgetMin |-> 0, budgetMax |-> 5]},
        text \in {<<>>, [fullName |-> "J"], [email |-> "invalid-email"]}}

\* the columns of the cells generated, and the values a row holds there
\* (a row without the column holds undefined, or NULL for a budget)
CellHeaders == {"notes", "bhk", "source", "budgetMin"}
CellValues(header) ==
    CASE header = "notes" -> FieldValues \cup {null}
      [] header = "bhk" -> BHKEnum \cup {null}
      [] header = "source" -> SourceEnum \cup {null}
      [] header = "budgetMin" -> {5, 10, 1200}
CellRows(header) == {withKey(<<>>, header, value) : value \in Opt(CellValues(header))}

\* the fields every exported record holds
ExportBase ==
    [fullName |-> "John Doe", phone |-> "1234567890", city |-> "Mohali", purpose |-> "Buy",
     timeline |-> "ZERO_TO_THREE_MONTHS", status |-> "New",
     createdAt |-> "2024-01-15T10:30:00.000Z", updatedAt |-> "2024-01-15T10:30:00.000Z"]

\* the notes of the exported records: plain, with a comma, with double
\* quotes, with a newline, with spaces around
ExportNotes == {"call back", "2BHK, premium", "said \"soon\"", "one\ntwo", " padded "}

\* valid canonical buyer records: with and without email, bhk, source,
\* budgets, notes and tags
ExportRecords ==
    {withKey(withKey(withKey(withKey(merge(merge(ExportBase, property), budgets),
                                     "email", email), "source", source),
                     "notes", notes), "tags", tags) :
        property \in {[propertyType |-> "Apartment", bhk |-> "TWO"], [propertyType |-> "Plot"]},
        budgets \in {<<>>, [budgetMin |-> 5, budgetMax |-> 10]},
        email \in Opt({"john@example.com"}),
        source \in Opt({"Walk_in", "Website"}),
        notes \in Opt(ExportNotes),
        tags \in Opt({"vip"})}

\* line k (the header is line 0) of a document replaced by content
replaceLine(content, k, newLine) ==
    LET lines == split(content, "\n")
    IN  join([j \in 1..Len(lines) |-> IF j = k + 1 THEN newLine ELSE lines[j]], "\n")

----------------------------------------------------------------------------
(* Every function of the pipeline is pure: a run is one call, whose        *)
(* argument Init draws, and, for parseCsvContent, a second call on the     *)
(* same document with one data line replaced.                              *)

NoResult == [kind |-> "none"]

NoUpload == [kind |-> "none"]
NoResponse == [handler |-> "none"]

NoCall == [pc |-> "idle"]

\* no rate limiter is in use
RateIdle ==
    /\ limiter = "none"
    /\ requests = <<>>
    /\ rateCall = NoCall
    /\ allowedLog = <<>>
    /\ steps = 0

\* the PATCH and DELETE requests of a behaviour
Slots == {1, 2}

\* no PATCH request was made
NoPatch == [pc |-> "idle"]

PatchIdle ==
    /\ patches = [p \in Slots |-> NoPatch]
    /\ history = <<>>

\* no request has been handled and the Buyer table is empty
StoreIdle ==
    /\ upload = NoUpload
    /\ buyers = <<>>
    /\ response = NoResponse
    /\ handled = 0
    /\ clock = 0

Init ==
    /\ done = FALSE
    /\ parsed = NoResult
    /\ result = NoResult
    /\ prevContent = ""
    /\ prevResult = NoResult
    /\ replacedLine = -1
    /\ codecOut = ""
    /\ \/ /\ op = "safeParse"
          /\ rowData \in RawRows
          /\ csvContent = ""
          /\ codecField = "none"
          /\ codecIn = ""
       \/ /\ op = "parseCsvContent"
          /\ csvContent \in Documents
          /\ rowData = <<>>
          /\ codecField = "none"
          /\ codecIn = ""
       \/ /\ op = "encode"
          /\ codecField \in CodecFields
          /\ codecIn \in UserTokens(codecField)
          /\ rowData = <<>>
          /\ csvContent = ""
       \/ /\ op = "decode"
          /\ codecField \in CodecFields
          /\ codecIn \in CanonicalTokens(codecField)
          /\ rowData = <<>>
          /\ csvContent = ""
       \/ /\ op = "generateCell"
          /\ codecField \in CellHeaders
          /\ rowData \in CellRows(codecField)
          /\ csvContent = ""
          /\ codecIn = ""
       \/ /\ op = "createSchemas"
          /\ rowData \in CreateInputs
          /\ csvContent = ""
          /\ codecField = "none"
          /\ codecIn = ""
       \/ /\ op = "exportImport"
          /\ rowData \in ExportRecords
          /\ csvContent = ""
          /\ codecField = "none"
          /\ codecIn = ""
       \/ /\ op \in {"csvCell", "parseCsvLine"}
          /\ rowData = <<>>
          /\ csvContent = ""
          /\ codecField = "none"
          /\ codecIn = ""
    /\ tokFields = <<>>
    /\ cellValue \in (IF op = "csvCell" THEN FieldValues ELSE {""})
    /\ tokLine \in (IF op = "parseCsvLine" THEN Lines ELSE {""})
    /\ StoreIdle
    /\ RateIdle
    /\ PatchIdle

\* CsvRowSchema.safeParse(rowData)
CallSafeParse ==
    /\ op = "safeParse"
    /\ ~done
    /\ done' = TRUE
    /\ parsed' = CsvRowSchema_safeParse(rowData)
    /\ UNCHANGED <<op, rowData, csvContent, result, prevContent, prevResult, replacedLine,
                   codecField, codecIn, codecOut>>
    /\ UNCHANGED tokVars
    /\ UNCHANGED storeVars
    /\ UNCHANGED rateVars
    /\ UNCHANGED patchVars

\* parseCsvContent(csvContent)
CallParseCsvContent ==
    /\ op = "parseCsvContent"
    /\ ~done
    /\ done' = TRUE
    /\ result' = parseCsvContent(csvContent)
    /\ UNCHANGED <<op, rowData, parsed, csvContent, prevContent, prevResult, replacedLine,
                   codecField, codecIn, codecOut>>
    /\ UNCHANGED tokVars
    /\ UNCHANGED storeVars
    /\ UNCHANGED rateVars
    /\ UNCHANGED patchVars

\* parseCsvContent of the same document (one with a valid header that starts
\* its first line) with one of its data lines replaced
CallParseReplaced ==
    /\ op = "parseCsvContent"
    /\ done
    /\ Len(csvContent) > Len(Header14)
    /\ SubSeq(csvContent, 1, Len(Header14) + 1) = Header14 \o "\n"
    /\ \E k \in 1..(Len(split(csvContent, "\n")) - 1), newLine \in ReplacementLines :
        /\ op' = "replaceLine"
        /\ prevContent' = csvContent
        /\ prevResult' = result
        /\ replacedLine' = k
        /\ csvContent' = replaceLine(csvContent, k, newLine)
        /\ result' = parseCsvContent(csvContent')
        /\ UNCHANGED <<done, rowData, parsed, codecField, codecIn, codecOut>>
        /\ UNCHANGED tokVars
        /\ UNCHANGED storeVars
        /\ UNCHANGED rateVars
        /\ UNCHANGED patchVars

\* the field's transform schema applied to a user-facing token it admits
CallEncode ==
    /\ op = "encode"
    /\ ~done
    /\ done' = TRUE
    /\ codecOut' = encode(codecField, codecIn)
    /\ UNCHANGED <<op, rowData, parsed, csvContent, result, prevContent, prevResult,
                   replacedLine, codecField, codecIn>>
    /\ UNCHANGED tokVars
    /\ UNCHANGED storeVars
    /\ UNCHANGED rateVars
    /\ UNCHANGED patchVars

\* generateCsvContent's switch applied to a stored token
CallDecode ==
    /\ op = "decode"
    /\ ~done
    /\ done' = TRUE
    /\ codecOut' = decode(codecField, codecIn)
    /\ UNCHANGED <<op, rowData, parsed, csvContent, result, prevContent, prevResult,
                   replacedLine, codecField, codecIn>>
    /\ UNCHANGED tokVars
    /\ UNCHANGED storeVars
    /\ UNCHANGED rateVars
    /\ UNCHANGED patchVars

\* one cell of generateCsvContent written for cellValue, then that cell read
\* back by parseCsvLine as a single-field line
CallCsvCell ==
    /\ op = "csvCell"
    /\ ~done
    /\ done' = TRUE
    /\ tokLine' = csvCell(cellValue)
    /\ tokFields' = parseCsvLine(tokLine')
    /\ UNCHANGED <<op, rowData, parsed, csvContent, result, prevContent, prevResult,
                   replacedLine, codecField, codecIn, codecOut, cellValue>>
    /\ UNCHANGED storeVars
    /\ UNCHANGED rateVars
    /\ UNCHANGED patchVars

\* parseCsvLine(tokLine)
CallParseCsvLine ==
    /\ op = "parseCsvLine"
    /\ ~done
    /\ done' = TRUE
    /\ tokFields' = parseCsvLine(tokLine)
    /\ UNCHANGED <<op, rowData, parsed, csvContent, result, prevContent, prevResult,
                   replacedLine, codecField, codecIn, codecOut, cellValue, tokLine>>
    /\ UNCHANGED storeVars
    /\ UNCHANGED rateVars
    /\ UNCHANGED patchVars

\* CreateBuyerFormSchema.safeParse(rowData) and CreateBuyerSchema.safeParse(rowData)
CallCreateSchemas ==
    /\ op = "createSchemas"
    /\ ~done
    /\ done' = TRUE
    /\ parsed' = [form |-> CreateBuyerFormSchema_safeParse(rowData),
                  api |-> CreateBuyerSchema_safeParse(rowData)]
    /\ UNCHANGED <<op, rowData, csvContent, result, prevContent, prevResult, replacedLine,
                   codecField, codecIn, codecOut>>
    /\ UNCHANGED tokVars
    /\ UNCHANGED storeVars
    /\ UNCHANGED rateVars
    /\ UNCHANGED patchVars

\* parseCsvContent(generateCsvContent([rowData]))
CallExportImport ==
    /\ op = "exportImport"
    /\ ~done
    /\ done' = TRUE
    /\ csvContent' = generateCsvContent(<<rowData>>)
    /\ result' = parseCsvContent(csvContent')
    /\ UNCHANGED <<op, rowData, parsed, prevContent, prevResult, replacedLine,
                   codecField, codecIn, codecOut>>
    /\ UNCHANGED tokVars
    /\ UNCHANGED storeVars
    /\ UNCHANGED rateVars
    /\ UNCHANGED patchVars

\* the cell of column codecField in the line generateCsvContent writes for
\* the row rowData
CallGenerateCell ==
    /\ op = "generateCell"
    /\ ~done
    /\ done' = TRUE
    /\ tokLine' = generateCell(rowData, codecField)
    /\ UNCHANGED <<op, rowData, parsed, csvContent, result, prevContent, prevResult,
                   replacedLine, codecField, codecIn, codecOut, cellValue, tokFields>>
    /\ UNCHANGED storeVars
    /\ UNCHANGED rateVars
    /\ UNCHANGED patchVars

Next ==
    \/ CallSafeParse
    \/ CallExportImport
    \/ CallGenerateCell
    \/ CallCreateSchemas
    \/ CallParseCsvContent
    \/ CallParseReplaced
    \/ CallEncode
    \/ CallDecode
    \/ CallCsvCell
    \/ CallParseCsvLine

Spec == Init /\ [][Next]_vars

----------------------------------------------------------------------------
(* The import endpoints: one request, with its file, per behaviour.        *)

\* no validation or parsing call is under way
CsvIdle ==
    /\ op = "none" /\ done = FALSE
    /\ rowData = <<>> /\ parsed = NoResult
    /\ csvContent = "" /\ result = NoResult
    /\ prevContent = "" /\ prevResult = NoResult /\ replacedLine = -1
    /\ codecField = "none" /\ codecIn = "" /\ codecOut = ""
    /\ cellValue = "" /\ tokLine = "" /\ tokFields = <<>>

InitImport ==
    /\ CsvIdle
    /\ upload \in Uploads
    /\ buyers = <<>>
    /\ response = NoResponse
    /\ handled = 0
    /\ clock = 0
    /\ RateIdle
    /\ PatchIdle

\* POST to an import endpoint with the file upload
Import(endpoint, session, allowed, hasFile) ==
    LET out == importHandler(endpoint, session, allowed, hasFile, upload, buyers, clock)
    IN  /\ response' = out.response
        /\ buyers' = out.buyers
        /\ handled' = handled + 1
        /\ UNCHANGED <<upload, clock>>
        /\ UNCHANGED csvVars
        /\ UNCHANGED rateVars
        /\ UNCHANGED patchVars

ImportRequest ==
    /\ handled = 0
    /\ \E endpoint \in ImportEndpoints, session \in Sessions,
          allowed \in BOOLEAN, hasFile \in BOOLEAN :
           Import(endpoint, session, allowed, hasFile)

NextImport == ImportRequest

SpecImport == InitImport /\ [][NextImport]_vars

----------------------------------------------------------------------------
(* One RateLimiter instance under calls of withRateLimit, while the clock  *)
(* advances.  withRateLimit reads the clock three times, once in each of   *)
(* isAllowed, getRemainingRequests and getResetTime.                       *)

\* the advances of the clock in one behaviour
MaxSteps == 2

\* the client identifiers: two for the import limiter, one for the others
Clients(name) == IF name = "importRateLimiter" THEN {"a", "b"} ELSE {"a"}

\* the advances of the clock: one millisecond, or the window
TimeSteps(name) == {1, RateLimiters[name].windowMs}

InitRate ==
    /\ CsvIdle
    /\ StoreIdle
    /\ PatchIdle
    /\ limiter \in DOMAIN RateLimiters
    /\ requests = <<>>
    /\ rateCall = NoCall
    /\ allowedLog = [identifier \in Clients(limiter) |-> <<>>]
    /\ steps = 0

\* withRateLimit(rateLimiter, identifier), first read: isAllowed
CallIsAllowed(identifier) ==
    /\ rateCall.pc = "idle"
    /\ LET out == isAllowed(RateLimiters[limiter], requests, identifier, clock)
       IN  /\ requests' = out.requests
           /\ rateCall' = [pc |-> "getRemainingRequests", identifier |-> identifier,
                           allowed |-> out.allowed]
           /\ allowedLog' = IF out.allowed
                            THEN [allowedLog EXCEPT ![identifier] = Append(@, clock)]
                            ELSE allowedLog
    /\ UNCHANGED <<limiter, steps>>
    /\ UNCHANGED storeVars
    /\ UNCHANGED csvVars
    /\ UNCHANGED patchVars

\* second read: getRemainingRequests
CallGetRemainingRequests ==
    /\ rateCall.pc = "getRemainingRequests"
    /\ rateCall' = [pc |-> "getResetTime", identifier |-> rateCall.identifier,
                    allowed |-> rateCall.allowed,
                    remaining |-> getRemainingRequests(RateLimiters[limiter], requests,
                                                       rateCall.identifier, clock)]
    /\ UNCHANGED <<limiter, requests, allowedLog, steps>>
    /\ UNCHANGED storeVars
    /\ UNCHANGED csvVars
    /\ UNCHANGED patchVars

\* third read: getResetTime, and the return of {allowed, remaining, resetTime}
CallGetResetTime ==
    /\ rateCall.pc = "getResetTime"
    /\ rateCall' = [pc |-> "idle", identifier |-> rateCall.identifier,
                    allowed |-> rateCall.allowed, remaining |-> rateCall.remaining,
                    resetTime |-> getResetTime(RateLimiters[limiter], requests,
                                               rateCall.identifier, clock)]
    /\ UNCHANGED <<limiter, requests, allowedLog, steps>>
    /\ UNCHANGED storeVars
    /\ UNCHANGED csvVars
    /\ UNCHANGED patchVars

\* the clock advances by d; allowedLog drops the calls older than the window
Tick(d) ==
    /\ steps < MaxSteps
    /\ steps' = steps + 1
    /\ clock' = clock + d
    /\ allowedLog' = [identifier \in DOMAIN allowedLog |->
                         SelectSeq(allowedLog[identifier],
                                   LAMBDA t : t >= clock' - RateLimiters[limiter].windowMs)]
    /\ UNCHANGED <<limiter, requests, rateCall>>
    /\ UNCHANGED <<upload, buyers, response, handled>>
    /\ UNCHANGED csvVars
    /\ UNCHANGED patchVars

NextRate ==
    \/ \E identifier \in Clients(limiter) : CallIsAllowed(identifier)
    \/ CallGetRemainingRequests
    \/ CallGetResetTime
    \/ \E d \in TimeSteps(limiter) : Tick(d)

SpecRate == InitRate /\ [][NextRate]_vars

----------------------------------------------------------------------------
(* The Buyer table under one create or import request, which is handled in *)
(* one step, and the PATCH and DELETE requests that follow it.  A PATCH or *)
(* a DELETE is handled in the steps its awaits cut it into, so that two of *)
(* them interleave; each write of a PATCH is a millisecond later than the  *)
(* last.                                                                   *)

\* the ids a PATCH names: the row the table holds, and one it does not
BuyerIds == {1, 2}

CreateBodies ==
    {merge(CreateBase, more) :
        more \in {[propertyType |-> "Apartment", bhk |-> "2", budgetMin |-> 5, budgetMax |-> 10],
                  [propertyType |-> "Apartment"],
                  [propertyType |-> "Plot"]}}

\* one-row files for the import
StoreUploads ==
    {[kind |-> "rows", header |-> Header14, line |-> line, rows |-> 1] :
        line \in {LineApartment, LinePlot}}

\* the versions a PATCH may carry: the updatedAt of a version read
PatchVersions == {0}

\* the bodies of the PATCH requests: the fields alone, and two of them with
\* the updatedAt of a version read
PatchBodies ==
    LET fieldsOnly == {[bhk |-> null],
                       [propertyType |-> "Apartment"],
                       [propertyType |-> "Villa", bhk |-> "3"],
                       [propertyType |-> "Plot", bhk |-> null],
                       [budgetMin |-> 10, budgetMax |-> 5],
                       [budgetMax |-> 1],
                       [tags |-> null],
                       [status |-> "Qualified"]}
        versioned == {[propertyType |-> "Villa", bhk |-> "3"], [status |-> "Qualified"]}
    IN  fieldsOnly \cup
        {merge(fields, [updatedAt |-> version]) :
            fields \in versioned, version \in PatchVersions}

InitStore ==
    /\ CsvIdle
    /\ RateIdle
    /\ PatchIdle
    /\ upload \in StoreUploads
    /\ buyers = <<>>
    /\ response = NoResponse
    /\ handled = 0
    /\ clock = 0

\* POST /api/buyers
Create(session, allowed, body) ==
    /\ handled = 0
    /\ LET out == createHandler(session, allowed, body, buyers, clock)
       IN  /\ response' = out.response
           /\ buyers' = out.buyers
    /\ handled' = handled + 1
    /\ UNCHANGED <<upload, clock>>
    /\ UNCHANGED <<csvVars, rateVars, patchVars>>

\* POST to an import endpoint
StoreImport(endpoint, session, allowed) ==
    /\ handled = 0
    /\ Import(endpoint, session, allowed, TRUE)

\* a PATCH request at its end: what it was, and its response
answered(request, status, error) ==
    [pc |-> "done", session |-> request.session, id |-> request.id, body |-> request.body,
     response |-> Json("PATCH", status, error)]

\* the end of a PATCH: its response
respond(p, status, error) ==
    /\ patches' = [patches EXCEPT ![p] = answered(@, status, error)]
    /\ response' = Json("PATCH", status, error)
    /\ handled' = handled + 1

\* PATCH, up to the first read of the buyer: session, rate limit, and the
\* parse of the body, which a request answered 401 or 429 has not read.  The
\* requests take the slots in order.
PatchStart(p, session, allowed, id, body) ==
    /\ patches[p].pc = "idle"
    /\ buyers # <<>>
    /\ \A q \in Slots : q < p => patches[q].pc # "idle"
    /\ LET request == [pc |-> "findExisting", session |-> session, id |-> id, body |-> body]
           unread == [request EXCEPT !.body = <<>>]
       IN  IF session = "none" \/ ~allowed \/ ~UpdateBuyerSchema_parse(body).success
           THEN LET out == IF session = "none" THEN answered(unread, 401, "Unauthorized")
                           ELSE IF ~allowed
                           THEN answered(unread, 429, "Too many requests")
                           ELSE answered(request, 400, "Validation failed")
                IN  /\ patches' = [patches EXCEPT ![p] = out]
                    /\ response' = out.response
                    /\ handled' = handled + 1
           ELSE /\ patches' = [patches EXCEPT ![p] = request]
                /\ UNCHANGED <<response, handled>>
    /\ UNCHANGED <<upload, buyers, clock, history>>
    /\ UNCHANGED <<csvVars, rateVars>>

\* existingBuyer = await findUnique, then the checks made on it
PatchFindExisting(p) ==
    /\ patches[p].pc = "findExisting"
    /\ LET existingBuyer == findUnique(buyers, patches[p].id)
       IN  IF existingBuyer = <<>> THEN respond(p, 404, "Buyer not found")
           ELSE IF forbidden(existingBuyer[1], patches[p].session)
           THEN respond(p, 403, "Forbidden")
           ELSE IF conflict(patches[p].body, existingBuyer[1])
           THEN respond(p, 409, "Buyer was modified by another user. Please refresh and try again.")
           ELSE /\ patches' = [patches EXCEPT ![p].pc = "findOld"]
                /\ UNCHANGED <<response, handled>>
    /\ UNCHANGED <<upload, buyers, clock, history>>
    /\ UNCHANGED <<csvVars, rateVars>>

\* oldBuyer = await findUnique: the row, or null when it has been deleted
PatchFindOld(p) ==
    /\ patches[p].pc = "findOld"
    /\ patches' = [patches EXCEPT ![p] =
                      [pc |-> "update", session |-> @.session, id |-> @.id, body |-> @.body,
                       oldBuyer |-> findUnique(buyers, @.id)]]
    /\ UNCHANGED <<upload, buyers, response, handled, clock, history>>
    /\ UNCHANGED <<csvVars, rateVars>>

\* await prisma.buyer.update with the validated data, which throws when the
\* row has been deleted; replaced is the row the update overwrote, kept for the
\* properties only
PatchUpdate(p) ==
    /\ patches[p].pc = "update"
    /\ IF findUnique(buyers, patches[p].id) = <<>>
       THEN /\ respond(p, 500, "Failed to update buyer")
            /\ UNCHANGED <<buyers, clock>>
       ELSE /\ clock' = clock + 1
            /\ buyers' = update(buyers, patches[p].id,
                                UpdateBuyerSchema_parse(patches[p].body).data, clock')
            /\ patches' = [patches EXCEPT ![p] =
                              [pc |-> "history", session |-> @.session, id |-> @.id,
                               body |-> @.body, oldBuyer |-> @.oldBuyer,
                               replaced |-> findUnique(buyers, @.id)[1]]]
            /\ UNCHANGED <<response, handled>>
    /\ UNCHANGED <<upload, history>>
    /\ UNCHANGED <<csvVars, rateVars>>

\* await prisma.buyerHistory.createMany, which is called when there are
\* entries and writes them or throws, and the response: the updated buyer, or
\* the 500 of the catch block
PatchHistory(p, written) ==
    /\ patches[p].pc = "history"
    /\ LET entries == IF patches[p].oldBuyer = <<>> THEN <<>>
                      ELSE historyEntries(patches[p].id, patches[p].oldBuyer[1],
                                          UpdateBuyerSchema_parse(patches[p].body).data,
                                          patches[p].session)
           out == IF written THEN Json("PATCH", 200, "")
                  ELSE Json("PATCH", 500, "Failed to update buyer")
       IN  /\ ~written => entries # <<>>
           /\ history' = IF written THEN history \o entries ELSE history
           /\ patches' = [patches EXCEPT ![p] =
                             [pc |-> "done", session |-> @.session, id |-> @.id,
                              body |-> @.body, replaced |-> @.replaced,
                              historyEntries |-> IF written THEN entries ELSE <<>>,
                              response |-> out]]
           /\ response' = out
    /\ handled' = handled + 1
    /\ UNCHANGED <<upload, buyers, clock>>
    /\ UNCHANGED <<csvVars, rateVars>>

\* a DELETE request at its end: what it was, and its response
deleted(request, status, error) ==
    [pc |-> "done", session |-> request.session, id |-> request.id, body |-> <<>>,
     response |-> Json("DELETE", status, error)]

\* DELETE, up to the delete: session, the read of the buyer and the owner
\* check; there is no rate limit on DELETE
DeleteStart(p, session, id) ==
    /\ patches[p].pc = "idle"
    /\ buyers # <<>>
    /\ \A q \in Slots : q < p => patches[q].pc # "idle"
    /\ LET request == [pc |-> "delete", session |-> session, id |-> id]
           existingBuyer == findUnique(buyers, id)
           out == IF session = "none" THEN deleted(request, 401, "Unauthorized")
                  ELSE IF existingBuyer = <<>> THEN deleted(request, 404, "Buyer not found")
                  ELSE IF forbidden(existingBuyer[1], session)
                  THEN deleted(request, 403, "Forbidden")
                  ELSE request
       IN  /\ patches' = [patches EXCEPT ![p] = out]
           /\ IF out.pc = "done"
              THEN response' = out.response /\ handled' = handled + 1
              ELSE UNCHANGED <<response, handled>>
    /\ UNCHANGED <<upload, buyers, clock, history>>
    /\ UNCHANGED <<csvVars, rateVars>>

\* await prisma.buyer.delete, which throws when the row has been deleted
\* already; removed is the row deleted, kept for the properties only
DeleteRow(p) ==
    /\ patches[p].pc = "delete"
    /\ LET existingBuyer == findUnique(buyers, patches[p].id)
           out == IF existingBuyer = <<>>
                  THEN deleted(patches[p], 500, "Failed to delete buyer")
                  ELSE [pc |-> "done", session |-> patches[p].session, id |-> patches[p].id,
                        body |-> <<>>, removed |-> existingBuyer[1],
                        response |-> Json("DELETE", 200, "")]
       IN  /\ patches' = [patches EXCEPT ![p] = out]
           /\ response' = out.response
    /\ buyers' = delete(buyers, patches[p].id)
    /\ handled' = handled + 1
    /\ UNCHANGED <<upload, clock, history>>
    /\ UNCHANGED <<csvVars, rateVars>>

NextStore ==
    \/ \E session \in Sessions, allowed \in BOOLEAN, body \in CreateBodies :
           Create(session, allowed, body)
    \/ \E endpoint \in ImportEndpoints, session \in Sessions, allowed \in BOOLEAN :
           StoreImport(endpoint, session, allowed)
    \/ \E p \in Slots, session \in Sessions, allowed \in BOOLEAN,
          id \in BuyerIds, body \in PatchBodies :
           PatchStart(p, session, allowed, id, body)
    \/ \E p \in Slots : PatchFindExisting(p)
    \/ \E p \in Slots : PatchFindOld(p)
    \/ \E p \in Slots : PatchUpdate(p)
    \/ \E p \in Slots, written \in BOOLEAN : PatchHistory(p, written)
    \/ \E p \in Slots, session \in Sessions, id \in BuyerIds : DeleteStart(p, session, id)
    \/ \E p \in Slots : DeleteRow(p)

SpecStore == InitStore /\ [][NextStore]_vars

----------------------------------------------------------------------------
(* Properties.                                                             *)

SafeParseDone == op = "safeParse" /\ done
ParseDone == op \in {"parseCsvContent", "replaceLine"} /\ done
Returned == ParseDone /\ result.kind = "return"

\* the errors of a failed validation that are attached to path
ErrorsAt(res, path) == {k \in 1..Len(res.errors) : res.errors[k].path = path}

\* a cell that is absent or blank
BlankCell(row, key) == ~Has(row, key) \/ trim(row[key]) = ""

\* every field of the row passes its own schema (no issue, no throw)
StructurallyValid(row) == csvRowObject(row).status = "valid"

\* C1: validating a raw row never throws; the call returns a success with a
\* record or a failure with a non-empty error list, in CsvRowSchema.safeParse
\* and so in parseCsvContent.
C1_ValidationNeverThrows ==
    /\ SafeParseDone =>
           \/ parsed.kind = "success" /\ Has(parsed, "data")
           \/ parsed.kind = "failure" /\ parsed.errors # <<>>
    /\ ParseDone => result.kind = "return"

\* the line of a document at row j (the header is row 0), "" past the end
LineAt(content, j) ==
    LET lines == split(trim(content), "\n")
    IN  IF j + 1 <= Len(lines) THEN lines[j + 1] ELSE ""

\* what a parse reports for the data line at row j: nothing for a skipped
\* line, the error entry of row j, or else the record at the line's rank
\* among the lines without an error entry; "lost" when the parse threw
LineOutcome(content, res, j) ==
    IF res.kind # "return" THEN [kind |-> "lost"]
    ELSE IF skipLine(LineAt(content, j)) THEN [kind |-> "skipped"]
    ELSE LET errs == IF Has(res, "errors") THEN res.errors ELSE <<>>
             hit == {k \in 1..Len(errs) : errs[k].row = j}
             failedRows == {errs[k].row : k \in 1..Len(errs)}
             rank == Cardinality({i \in 1..j : ~skipLine(LineAt(content, i)) /\ i \notin failedRows})
         IN  IF hit # {} THEN [kind |-> "error", entries |-> {errs[k] : k \in hit}]
             ELSE IF Has(res, "data") /\ rank <= Len(res.data)
             THEN [kind |-> "record", data |-> res.data[rank]]
             ELSE [kind |-> "missing"]

\* C2: with a valid header, replacing one data line by any other single-line
\* content changes neither the outcome nor the reported row number of any
\* other data line.
C2_OtherLinesUnaffected ==
    op = "replaceLine" =>
        \A j \in 1..(Len(split(prevContent, "\n")) - 1) :
            j # replacedLine =>
                LineOutcome(csvContent, result, j) = LineOutcome(prevContent, prevResult, j)

\* C3: for a row whose fields are all structurally valid: with propertyType
\* Apartment or Villa and bhk absent or blank, validation fails with an error
\* on path bhk; with propertyType Plot, Office or Retail no error is attached
\* to bhk, whether bhk is absent or present.
C3_BhkRule ==
    (SafeParseDone /\ StructurallyValid(rowData)) =>
        /\ (rowData.propertyType \in {"Apartment", "Villa"} /\ BlankCell(rowData, "bhk")) =>
               parsed.kind = "failure" /\ ErrorsAt(parsed, "bhk") # {}
        /\ rowData.propertyType \in {"Plot", "Office", "Retail"} =>
               parsed.kind = "success" \/ ErrorsAt(parsed, "bhk") = {}

\* C3 witness: a Villa row without bhk was rejected with an error on bhk.
C3_Witness ==
    /\ SafeParseDone /\ StructurallyValid(rowData)
    /\ rowData.propertyType = "Villa" /\ ~Has(rowData, "bhk")
    /\ parsed.kind = "failure" /\ ErrorsAt(parsed, "bhk") # {}

\* the integer of a budget cell: parsed, or absent
BudgetPresent(row, key) == Has(row, key) /\ row[key] # "" /\ ~parseInt(row[key]).nan
BudgetOf(row, key) == parseInt(row[key]).num

\* C4: for a row that is otherwise valid and the integers (min, max) parsed
\* from its budget cells: both present and min > max gives a failure with an
\* error on path budgetMin; min <= max, or either absent, passes the rule.
C4_BudgetRule ==
    (SafeParseDone /\ StructurallyValid(rowData) /\ bhkRefine(csvRowObject(rowData).value)) =>
        IF /\ BudgetPresent(rowData, "budgetMin") /\ BudgetPresent(rowData, "budgetMax")
           /\ BudgetOf(rowData, "budgetMin") > BudgetOf(rowData, "budgetMax")
        THEN parsed.kind = "failure" /\ ErrorsAt(parsed, "budgetMin") # {}
        ELSE parsed.kind = "success"

\* C5: for timeline, bhk, source and status, encode and decode are inverse
\* bijections between the user-facing and the canonical tokens.
C5_CodecBijection ==
    /\ (op = "encode" /\ done) =>
           /\ codecOut \in CanonicalTokens(codecField)
           /\ decode(codecField, codecOut) = codecIn
           /\ \A x \in UserTokens(codecField) : encode(codecField, x) = codecOut => x = codecIn
    /\ (op = "decode" /\ done) =>
           /\ codecOut \in UserTokens(codecField)
           /\ encode(codecField, codecOut) = codecIn
           /\ \A y \in CanonicalTokens(codecField) : decode(codecField, y) = codecOut => y = codecIn

\* C5 witness: Walk-in was encoded as Walk_in, and ZERO_TO_THREE_MONTHS was
\* decoded as 0-3m.
C5_Witness ==
    \/ op = "encode" /\ done /\ codecIn = "Walk-in" /\ codecOut = "Walk_in"
    \/ op = "decode" /\ done /\ codecIn = "ZERO_TO_THREE_MONTHS" /\ codecOut = "0-3m"

\* the lines of a document as the import sees them, the header first
DocLines(content) == split(trim(content), "\n")

\* the 14 column names an import file must carry
RequiredColumns == {"fullName", "email", "phone", "city", "propertyType", "bhk",
                    "purpose", "budgetMin", "budgetMax", "timeline", "source",
                    "notes", "tags", "status"}

\* the required column names the header line of a document lacks
MissingColumns(content) ==
    LET headers == parseCsvLine(DocLines(content)[1])
    IN  {c \in RequiredColumns : \A j \in 1..Len(headers) : headers[j] # c}

\* the rows of a document whose line is blank, and those whose line is not
BlankRows(content) ==
    {j \in 1..(Len(DocLines(content)) - 1) : trim(LineAt(content, j)) = ""}
DataRows(content) == (1..(Len(DocLines(content)) - 1)) \ BlankRows(content)

\* the lists of a result, empty when absent
DataOf(res) == IF Has(res, "data") THEN res.data ELSE <<>>
ErrorsOf(res) == IF Has(res, "errors") THEN res.errors ELSE <<>>

\* C6 as stated: for every document the result of parseCsvContent satisfies
\* totalRows = validRows + invalidRows.
C6_Conservation_Original ==
    Returned => result.totalRows = result.validRows + result.invalidRows

\* C6: whenever parseCsvContent returns a result, totalRows is the number of
\* lines after the header; with a complete header it equals validRows +
\* invalidRows + the number of blank lines among them, and with a header that
\* lacks a required column validRows = invalidRows = 0.
C6_Conservation ==
    Returned =>
        /\ result.totalRows = Len(DocLines(csvContent)) - 1
        /\ IF MissingColumns(csvContent) = {}
           THEN result.totalRows = result.validRows + result.invalidRows
                                       + Cardinality(BlankRows(csvContent))
           ELSE result.validRows = 0 /\ result.invalidRows = 0

\* C6 witness: a document with a blank line between two valid rows was
\* imported: two valid rows out of three.
C6_Witness ==
    /\ Returned /\ result.success
    /\ BlankRows(csvContent) # {}
    /\ result.validRows = 2 /\ result.invalidRows = 0 /\ result.totalRows = 3

\* C7 as stated: for every document, the number of returned records equals
\* validRows and the number of returned error entries equals invalidRows.
C7_Counters_Original ==
    Returned =>
        /\ Len(DataOf(result)) = result.validRows
        /\ Len(ErrorsOf(result)) = result.invalidRows

\* C7: whenever parseCsvContent returns a result, the number of returned
\* records equals validRows and the number of returned error entries for data
\* rows (row >= 1) equals invalidRows; an entry at row 0 is returned exactly
\* when the header lacks a required column, and it is then the only entry.
C7_Counters ==
    Returned =>
        LET errs == ErrorsOf(result)
            rowEntries == {k \in 1..Len(errs) : errs[k].row >= 1}
        IN  /\ Len(DataOf(result)) = result.validRows
            /\ Cardinality(rowEntries) = result.invalidRows
            /\ IF MissingColumns(csvContent) = {}
               THEN Len(errs) = result.invalidRows
               ELSE Len(errs) = 1 /\ errs[1].row = 0 /\ result.invalidRows = 0

\* C7 witness: an import returned both records and row errors.
C7_Witness ==
    /\ Returned
    /\ result.validRows >= 1 /\ result.invalidRows >= 1
    /\ Len(result.data) = result.validRows
    /\ Len(result.errors) = result.invalidRows

RowValid(content, j) ==
    validateLine(parseCsvLine(DocLines(content)[1]), trim(LineAt(content, j))).kind = "success"

\* C9: the status column is optional on import: a document whose header is
\* the 13 columns without status and whose data rows are all valid is imported
\* with success = true and one record per data row.
C9_StatusColumnOptional ==
    (/\ ParseDone
     /\ DocLines(csvContent)[1] = Header13
     /\ DataRows(csvContent) # {}
     /\ \A j \in DataRows(csvContent) : RowValid(csvContent, j)) =>
        /\ result.kind = "return"
        /\ result.success
        /\ Len(DataOf(result)) = Cardinality(DataRows(csvContent))

\* the raw row with its source cell removed
WithoutSource(row) == [k \in (DOMAIN row) \ {"source"} |-> row[k]]

\* C10: a blank source is allowed: a row that is otherwise valid and whose
\* source cell is empty passes CsvRowSchema.safeParse, and parseCsvContent
\* returns a record for it; the normalized record has source absent.
C10_BlankSourceAllowed ==
    /\ (/\ SafeParseDone
        /\ Has(rowData, "source") /\ rowData.source = ""
        /\ CsvRowSchema_safeParse(WithoutSource(rowData)).kind = "success") =>
           parsed.kind = "success" /\ ~Has(parsed.data, "source")
    /\ (Returned /\ MissingColumns(csvContent) = {}) =>
           \A j \in DataRows(csvContent) :
               LET row == rowDataOf(parseCsvLine(DocLines(csvContent)[1]),
                                    parseCsvLine(trim(LineAt(csvContent, j))))
               IN  (row.source = "" /\ CsvRowSchema_safeParse(WithoutSource(row)).kind = "success") =>
                       /\ LineOutcome(csvContent, result, j).kind = "record"
                       /\ ~Has(LineOutcome(csvContent, result, j).data, "source")

\* the enumerated cells of a raw row all hold a token of their enum, the
\* required text cells are present, and bhk is blank or a BHK token
EnumCellsValid(row) ==
    /\ Has(row, "fullName") /\ Has(row, "phone")
    /\ Has(row, "city") /\ row.city \in CityEnum
    /\ Has(row, "propertyType") /\ row.propertyType \in PropertyTypeEnum
    /\ Has(row, "purpose") /\ row.purpose \in PurposeEnum
    /\ Has(row, "timeline") /\ row.timeline \in FormTimelineEnum
    /\ Has(row, "source") => row.source \in FormSourceEnum
    /\ Has(row, "status") => row.status \in BuyerStatusEnum
    /\ BlankCell(row, "bhk") \/ row.bhk \in FormBHKEnum

\* a failed validation reports a structural error of a text field
TextErrors(res) ==
    {k \in 1..Len(res.errors) : res.errors[k].path \in {"fullName", "email", "phone", "notes"}}

\* the row breaks the BHK rule
BhkRuleBroken(row) == row.propertyType \in {"Apartment", "Villa"} /\ BlankCell(row, "bhk")

\* the row breaks the budget rule with two non-zero budgets (a parsed 0 is
\* taken for an absent budget, see C4)
BudgetRuleBroken(row) ==
    /\ BudgetPresent(row, "budgetMin") /\ BudgetPresent(row, "budgetMax")
    /\ BudgetOf(row, "budgetMin") # 0 /\ BudgetOf(row, "budgetMax") # 0
    /\ BudgetOf(row, "budgetMin") > BudgetOf(row, "budgetMax")

\* C11 as stated: the two cross-field rules are evaluated even when some field
\* of the row has a structural error: a failed row that breaks the BHK rule
\* carries a bhk error, one that breaks the budget rule a budgetMin error.
C11_NoShortCircuit_Original ==
    (SafeParseDone /\ parsed.kind = "failure" /\ Has(rowData, "propertyType")) =>
        /\ BhkRuleBroken(rowData) => ErrorsAt(parsed, "bhk") # {}
        /\ BudgetRuleBroken(rowData) => ErrorsAt(parsed, "budgetMin") # {}

\* C11: all structural errors of a row are collected.  When the enumerated
\* cells are all valid and the only structural errors are those of text
\* fields (length, e-mail format), both cross-field rules are still
\* evaluated and their errors are reported in the same list; when an
\* enumerated cell is invalid (or a required cell is missing) the cross-field
\* rules are not evaluated and the list holds no bhk and no budgetMin error.
C11_NoShortCircuit ==
    (SafeParseDone /\ parsed.kind = "failure") =>
        IF EnumCellsValid(rowData)
        THEN TextErrors(parsed) # {} =>
                 /\ BhkRuleBroken(rowData) <=> ErrorsAt(parsed, "bhk") # {}
                 /\ BudgetRuleBroken(rowData) => ErrorsAt(parsed, "budgetMin") # {}
        ELSE ErrorsAt(parsed, "bhk") = {} /\ ErrorsAt(parsed, "budgetMin") = {}

\* C11 witness: a row with an invalid e-mail, propertyType Apartment, no bhk
\* and its budgets out of order was reported with an email, a bhk and a
\* budgetMin error together.
C11_Witness ==
    /\ SafeParseDone /\ parsed.kind = "failure"
    /\ rowData.propertyType = "Apartment" /\ ~Has(rowData, "bhk")
    /\ Has(rowData, "email") /\ rowData.email = "invalid-email"
    /\ ErrorsAt(parsed, "email") # {} /\ ErrorsAt(parsed, "bhk") # {}
    /\ ErrorsAt(parsed, "budgetMin") # {}

\* C12: for every field value v with a comma, a double quote or a newline,
\* parseCsvLine of the cell generateCsvContent writes for v is exactly <<v>>.
C12_TokenizerRoundTrip ==
    (op = "csvCell" /\ done) => tokFields = <<cellValue>>

\* the raw (untrimmed) fields of a line from position i on, the first one
\* being the rest of the field position i lies in
RefFields[ln \in STRING, i \in Nat, inQ \in BOOLEAN] ==
    IF i > Len(ln) THEN <<"">>
    ELSE LET c == CharAt(ln, i)
             escaped == c = "\"" /\ inQ /\ i < Len(ln) /\ CharAt(ln, i + 1) = "\""
             rest == IF escaped THEN RefFields[ln, i + 2, inQ]
                     ELSE IF c = "\"" THEN RefFields[ln, i + 1, ~inQ]
                     ELSE RefFields[ln, i + 1, inQ]
         IN  IF escaped THEN <<"\"" \o Head(rest)>> \o Tail(rest)
             ELSE IF c = "\"" THEN rest
             ELSE IF c = "," /\ ~inQ THEN <<"">> \o rest
             ELSE <<c \o Head(rest)>> \o Tail(rest)

\* the number of commas met outside quotes from position i on
UnquotedCommas[ln \in STRING, i \in Nat, inQ \in BOOLEAN] ==
    IF i > Len(ln) THEN 0
    ELSE LET c == CharAt(ln, i)
         IN  IF c = "\"" /\ inQ /\ i < Len(ln) /\ CharAt(ln, i + 1) = "\""
             THEN UnquotedCommas[ln, i + 2, inQ]
             ELSE IF c = "\"" THEN UnquotedCommas[ln, i + 1, ~inQ]
             ELSE (IF c = "," /\ ~inQ THEN 1 ELSE 0) + UnquotedCommas[ln, i + 1, inQ]

\* C13: parseCsvLine is one left-to-right scan with an inQuotes flag: a double
\* quote inside quotes that is followed by a double quote gives one literal
\* quote, any other double quote only toggles inQuotes, a comma splits fields
\* only outside quotes, and the number of fields is 1 + the number of commas
\* met outside quotes (an empty line gives one empty field).
C13_TokenizerScan ==
    (op = "parseCsvLine" /\ done) =>
        LET ref == RefFields[tokLine, 1, FALSE]
        IN  /\ Len(tokFields) = 1 + UnquotedCommas[tokLine, 1, FALSE]
            /\ Len(tokFields) = Len(ref)
            /\ \A k \in 1..Len(ref) : tokFields[k] = trim(ref[k])
            /\ tokLine = "" => tokFields = <<"">>

\* C13 witness: a line with an escaped quote and a comma inside quotes was
\* read as one field holding the quote and the comma.
C13_Witness ==
    /\ op = "parseCsvLine" /\ done
    /\ tokLine = "\"\"\","
    /\ tokFields = <<"\",">>

\* the elements of a finite set of numbers, in increasing order
RECURSIVE Ascending(_)
Ascending(S) ==
    IF S = {} THEN <<>>
    ELSE LET least == CHOOSE x \in S : \A y \in S : x <= y
         IN  <<least>> \o Ascending(S \ {least})

\* the rows of a document whose line validates, and the record of a row
ValidRowsIn(content) == {j \in DataRows(content) : RowValid(content, j)}
RecordOf(content, j) ==
    validateLine(parseCsvLine(DocLines(content)[1]), trim(LineAt(content, j))).data

RECURSIVE OutcomesFrom(_, _, _)
\* for the data lines from row j on: blank, or what validateLine makes of it
OutcomesFrom(headers, lines, j) ==
    IF j + 1 > Len(lines) THEN <<>>
    ELSE <<IF trim(lines[j + 1]) = "" THEN [kind |-> "blank"]
           ELSE validateLine(headers, trim(lines[j + 1]))>>
         \o OutcomesFrom(headers, lines, j + 1)

\* row by row, the outcome of the data lines of a document
Outcomes(content) ==
    With(DocLines(content), LAMBDA lines : OutcomesFrom(parseCsvLine(lines[1]), lines, 1))

\* the rows of the kinds given, in a sequence of outcomes
RowsOf(out, kinds) == {j \in 1..Len(out) : out[j].kind \in kinds}

\* C14: for every document with a valid header, parseCsvContent returns
\* success = true if and only if every non-empty data line validated, and a
\* result with success = false still carries in data every record that did
\* validate.
C14_SuccessIffAllValid ==
    (ParseDone /\ MissingColumns(csvContent) = {}) =>
        With(Outcomes(csvContent), LAMBDA out :
            /\ (result.kind = "return" /\ result.success)
                   <=> (RowsOf(out, {"success"}) = RowsOf(out, {"success", "failure", "throw"}))
            /\ (result.kind = "return" /\ ~result.success) =>
                   With(Ascending(RowsOf(out, {"success"})), LAMBDA rows :
                       /\ Has(result, "data")
                       /\ Len(result.data) = Len(rows)
                       /\ \A k \in 1..Len(rows) : result.data[k] = out[rows[k]].data))

\* C14 witness: an import with one valid and one invalid row returned
\* success = false together with the valid row's record.
C14_Witness ==
    /\ Returned /\ MissingColumns(csvContent) = {}
    /\ ~result.success
    /\ Cardinality(ValidRowsIn(csvContent)) = 1
    /\ Len(result.data) = 1 /\ Len(result.errors) = 1

\* C15: the data lines are processed in input order: the returned records are
\* in the order of their source lines, the error entries are in strictly
\* increasing row number, and the row number of an error entry is the index
\* of its line in the trimmed document (header = 0), blank lines counted.
C15_InputOrder ==
    (Returned /\ MissingColumns(csvContent) = {}) =>
        With(Outcomes(csvContent), LAMBDA out :
            LET good == Ascending(RowsOf(out, {"success"}))
                bad == Ascending(RowsOf(out, {"failure", "throw"}))
                errs == ErrorsOf(result)
            IN  /\ DataOf(result) = [k \in 1..Len(good) |-> out[good[k]].data]
                /\ \A k \in 1..(Len(errs) - 1) : errs[k].row < errs[k + 1].row
                /\ [k \in 1..Len(errs) |-> errs[k].row] = bad)

\* C15 witness: a document with a blank line, then an invalid line, then a
\* valid line: the error is at row 2 and the record is that of row 3.
C15_Witness ==
    /\ Returned /\ MissingColumns(csvContent) = {}
    /\ BlankRows(csvContent) = {1}
    /\ Len(ErrorsOf(result)) = 1 /\ result.errors[1].row = 2
    /\ Len(result.data) = 1 /\ result.data[1] = RecordOf(csvContent, 3)

\* the number of non-blank data lines of an uploaded file
UploadRows(file) ==
    IF file.kind = "rows" THEN file.rows ELSE Cardinality(DataRows(file.content))

\* the uploaded file has a complete header, at least one line that validates
\* and at least one that does not
MixedUpload(file) ==
    /\ file.kind = "text"
    /\ MissingColumns(file.content) = {}
    /\ ValidRowsIn(file.content) # {}
    /\ ValidRowsIn(file.content) # DataRows(file.content)
    /\ parseCsvContent(file.content).kind = "return"

\* what an endpoint answers to a signed-in, non-throttled request with file
Answer(endpoint, file) == importHandler(endpoint, "user1", TRUE, TRUE, file, <<>>, 0)

\* C16: on a document with some invalid rows the import endpoints differ: at
\* least one rejects the whole batch and persists nothing, and at least one
\* other persists the valid rows and reports the invalid ones.
C16_EndpointsDiffer ==
    (handled = 1 /\ MixedUpload(upload)) =>
        /\ \E e \in ImportEndpoints :
               Answer(e, upload).response.status = 400 /\ Answer(e, upload).buyers = <<>>
        /\ \E e \in ImportEndpoints :
               Len(Answer(e, upload).buyers) = Cardinality(ValidRowsIn(upload.content))

\* C17: no import request persists more than 200 buyers: a request whose
\* document has more than 200 data rows is rejected with a 400 response and
\* writes nothing to the store.
C17_RowCeiling ==
    handled = 1 =>
        /\ Len(buyers) <= 200
        /\ (/\ UploadRows(upload) > 200
            /\ response.status \notin {401, 429}
            /\ response.error # "No file provided") =>
               response.status = 400 /\ buyers = <<>>

\* C17 witness: an import of 201 valid rows was answered 400 "Too many rows"
\* and nothing was written.
C17_Witness ==
    /\ handled = 1 /\ upload.kind = "rows" /\ upload.rows = 201
    /\ response.status = 400
    /\ response.error = "Too many rows. Maximum 200 rows allowed."
    /\ buyers = <<>>

\* the calls of a client allowed in the interval (from, to], the ends
\* to - from apart
AllowedIn(identifier, from, to) ==
    {k \in 1..Len(allowedLog[identifier]) :
        allowedLog[identifier][k] > from /\ allowedLog[identifier][k] <= to}

\* the number of calls of a client allowed in the last windowMs milliseconds
AllowedInLastWindow(identifier) ==
    Cardinality(AllowedIn(identifier, clock - RateLimiters[limiter].windowMs, clock))

\* C19, as stated: for every client identifier and every time interval of the
\* window length, the number of requests allowed is at most the configured
\* maximum: 20 creates in 15 minutes, 30 updates in 15 minutes, 5 imports in
\* an hour.
C19_SlidingWindow_Original ==
    limiter # "none" =>
        \A identifier \in DOMAIN allowedLog :
            AllowedInLastWindow(identifier) <= RateLimiters[limiter].maxRequests

\* C19, amended: the counter is a fixed window that starts at a client's
\* first request, so an interval of the window length overlaps two windows and
\* holds at most 2 * maxRequests - 1 allowed requests of one client: at most
\* 39 creates and 59 updates in any 15 minutes, 9 imports in any hour.
C19_SlidingWindow ==
    limiter # "none" =>
        \A identifier \in DOMAIN allowedLog :
            AllowedInLastWindow(identifier) <= 2 * RateLimiters[limiter].maxRequests - 1

\* the burst at a window's end: 9 imports of one client within two milliseconds
C19_Witness ==
    /\ limiter = "importRateLimiter"
    /\ AllowedInLastWindow("a") = 2 * RateLimiters[limiter].maxRequests - 1
    /\ requests["a"].count = RateLimiters[limiter].maxRequests

\* the PATCH of slot p was applied and answered 200
Applied(p) ==
    /\ patches[p].pc = "done"
    /\ patches[p].response.handler = "PATCH"
    /\ patches[p].response.status = 200

\* the PATCH requests of slots p and q carry the updatedAt of one version of
\* one buyer
SameVersion(p, q) ==
    /\ patches[p].id = patches[q].id
    /\ Has(patches[p].body, "updatedAt")
    /\ Has(patches[q].body, "updatedAt")
    /\ patches[p].body.updatedAt = patches[q].body.updatedAt

\* C18: optimistic concurrency on PATCH: under every interleaving of two PATCH
\* requests that both carry the updatedAt of the same stored version, at most
\* one is applied (the other is rejected with a 409 conflict).
C18_OptimisticConcurrency ==
    \A p, q \in Slots :
        (p # q /\ Applied(p) /\ Applied(q)) => ~SameVersion(p, q)

\* C20: in every reachable state of the buyer store, after successful create,
\* import and update requests, every stored buyer whose propertyType is
\* Apartment or Villa has a bhk value, not null and not absent.
C20_StoredBhk ==
    \A k \in 1..Len(buyers) :
        buyers[k].propertyType \in {"Apartment", "Villa"} =>
            Has(buyers[k], "bhk") /\ buyers[k].bhk # null

\* C21: in every reachable state of the buyer store, after successful create,
\* import and update requests, every stored buyer that has both budgetMin and
\* budgetMax satisfies budgetMin <= budgetMax.
C21_StoredBudgets ==
    \A k \in 1..Len(buyers) :
        (Has(buyers[k], "budgetMin") /\ Has(buyers[k], "budgetMax")) =>
            buyers[k].budgetMin <= buyers[k].budgetMax

\* both create schemas were applied to rowData
CreateSchemasDone == op = "createSchemas" /\ done

\* a form-mode record with timeline, bhk and source replaced by the tokens the
\* field codec gives them
Canonical(data) ==
    [k \in DOMAIN data |->
        IF k \in {"timeline", "bhk", "source"} THEN encode(k, data[k]) ELSE data[k]]

\* C22: form mode and API mode of create validation accept exactly the same
\* inputs: CreateBuyerSchema succeeds if and only if CreateBuyerFormSchema
\* does, both report the same errors on failure, and on success the API-mode
\* output is the form-mode output with timeline, bhk and source replaced by
\* their canonical tokens and every other field unchanged.
C22_FormApiEquivalence ==
    CreateSchemasDone =>
        /\ (parsed.api.kind = "success") <=> (parsed.form.kind = "success")
        /\ parsed.form.kind = "failure" =>
               parsed.api.kind = "failure" /\ parsed.api.errors = parsed.form.errors
        /\ parsed.form.kind = "success" => parsed.api.data = Canonical(parsed.form.data)

\* C22 witness: a body with bhk 2 and source Walk-in was accepted by both
\* schemas, the API mode returning TWO and Walk_in.
C22_Witness ==
    /\ CreateSchemasDone
    /\ parsed.form.kind = "success"
    /\ Has(parsed.form.data, "bhk") /\ parsed.form.data.bhk = "2"
    /\ Has(parsed.form.data, "source") /\ parsed.form.data.source = "Walk-in"
    /\ parsed.api.data.bhk = "TWO" /\ parsed.api.data.source = "Walk_in"

\* a cell was generated for column codecField of rowData
GenerateDone == op = "generateCell" /\ done

\* the row holds a value in the column: neither undefined nor null
HoldsValue(row, header) ==
    Has(row, header) /\ (header \in {"budgetMin", "budgetMax"} \/ row[header] # null)

\* s with every pair of double quotes read as one, from position i on;
\* "unpaired" if a double quote stands alone
collapse[s \in STRING, i \in Nat] ==
    IF i > Len(s) THEN ""
    ELSE IF CharAt(s, i) # "\"" THEN
        (IF collapse[s, i + 1] = "unpaired" THEN "unpaired"
         ELSE CharAt(s, i) \o collapse[s, i + 1])
    ELSE IF i + 1 > Len(s) \/ CharAt(s, i + 1) # "\"" THEN "unpaired"
    ELSE IF collapse[s, i + 2] = "unpaired" THEN "unpaired"
    ELSE "\"" \o collapse[s, i + 2]

\* the cell is text between two double quotes whose inner double quotes come
\* in pairs and stand for the double quotes of text
QuotedFrom(cell, text) ==
    /\ Len(cell) >= 2
    /\ CharAt(cell, 1) = "\"" /\ CharAt(cell, Len(cell)) = "\""
    /\ collapse[SubSeq(cell, 2, Len(cell) - 1), 1] = text

\* C23: in generateCsvContent a cell is wrapped in double quotes, with every
\* internal double quote doubled, if and only if its string value contains a
\* comma, a double quote or a newline; every other non-null value is written
\* unchanged, and null or undefined is written as the empty string.
C23_CellQuoting ==
    GenerateDone =>
        IF ~HoldsValue(rowData, codecField) THEN tokLine = ""
        ELSE LET text == stringValueOf(codecField, rowData[codecField])
                 special == \E k \in 1..Len(text) : CharAt(text, k) \in {",", "\"", "\n"}
             IN  /\ special => QuotedFrom(tokLine, text)
                 /\ ~special => tokLine = text

\* C23 witness: notes holding a double quote and a newline were written
\* between double quotes with the inner quote doubled.
C23_Witness ==
    /\ GenerateDone
    /\ codecField = "notes"
    /\ rowData = [notes |-> "a\"\n"]
    /\ tokLine = "\"a\"\"\n\""

\* C24: every record returned by parseCsvContent has budgetMin and budgetMax
\* each either absent or a positive integer, whatever the budget cells hold.
C24_PositiveBudgets ==
    Returned =>
        \A k \in 1..Len(DataOf(result)) :
            \A key \in {"budgetMin", "budgetMax"} :
                Has(result.data[k], key) => result.data[k][key] > 0

\* the fields a PATCH supplied whose new value differs from the value the row
\* held when the update was applied (NULL when the row held none)
Differing(p) ==
    LET data == UpdateBuyerSchema_parse(patches[p].body).data
    IN  {k \in DOMAIN data :
            IF Has(patches[p].replaced, k) THEN patches[p].replaced[k] # data[k]
            ELSE ~isNull(k, data[k])}

\* C25: a successful PATCH creates exactly one history entry for each supplied
\* field whose new value differs from the stored value and none for any other
\* field, and no history entry records an oldValue equal to its newValue.
C25_HistoryEntries ==
    /\ \A p \in Slots :
           Applied(p) =>
               /\ {patches[p].historyEntries[j].field :
                       j \in 1..Len(patches[p].historyEntries)} = Differing(p)
               /\ \A j, k \in 1..Len(patches[p].historyEntries) :
                      patches[p].historyEntries[j].field = patches[p].historyEntries[k].field
                          => j = k
    /\ \A j \in 1..Len(history) : history[j].oldValue # history[j].newValue

\* the calls of a client allowed between the creation of its window entry and
\* the entry's resetTime
AllowedInWindow(identifier) ==
    AllowedIn(identifier,
              requests[identifier].resetTime - RateLimiters[limiter].windowMs - 1,
              requests[identifier].resetTime)

\* a call of isAllowed that returns false
Denied == rateCall.pc = "idle" /\ rateCall'.pc = "getRemainingRequests" /\ ~rateCall'.allowed

\* C26: the fixed-window invariant of RateLimiter: for every identifier the
\* stored count never exceeds maxRequests, at most maxRequests calls of
\* isAllowed return true between the creation of a window entry and its
\* resetTime, and a call that returns false changes neither the count nor the
\* resetTime of any entry.
C26_FixedWindow ==
    /\ [](\A identifier \in DOMAIN requests :
             /\ requests[identifier].count <= RateLimiters[limiter].maxRequests
             /\ Cardinality(AllowedInWindow(identifier)) <= RateLimiters[limiter].maxRequests)
    /\ [][Denied => requests' = requests]_vars

\* a denied call on a full window whose allowed calls are all logged
C26_Witness ==
    /\ limiter = "importRateLimiter"
    /\ rateCall.pc = "getRemainingRequests"
    /\ ~rateCall.allowed
    /\ requests[rateCall.identifier].count = RateLimiters[limiter].maxRequests
    /\ Cardinality(AllowedInWindow(rateCall.identifier)) = RateLimiters[limiter].maxRequests

\* withRateLimit has returned {allowed: false, remaining, resetTime}
ReturnedDenied == rateCall.pc = "idle" /\ Has(rateCall, "allowed") /\ ~rateCall.allowed

\* C27: withRateLimit returns a consistent triple: whenever allowed is false,
\* remaining is 0 and resetTime is the reset time of the window that caused the
\* denial, even if the clock advances between the three successive reads.
C27_ConsistentTriple ==
    ReturnedDenied =>
        /\ rateCall.remaining = 0
        /\ rateCall.resetTime = requests[rateCall.identifier].resetTime

\* the PATCH of slot p was answered with an error
Failed(p) ==
    /\ patches[p].pc = "done"
    /\ patches[p].response.handler = "PATCH"
    /\ patches[p].response.status # 200

\* the update of the PATCH of slot p was applied to the row
Updated(p) == Has(patches[p], "replaced")

\* C28: a PATCH request that returns an error response (400, 401, 403, 404, 409,
\* 429 or 500) leaves the stored buyer record and its history unchanged: it has
\* neither applied its update nor written a history entry, also when the
\* failure occurs while the history entries are written, after the update.
C28_ErrorLeavesUnchanged ==
    \A p \in Slots :
        Failed(p) =>
            /\ ~Updated(p)
            /\ Has(patches[p], "historyEntries") => patches[p].historyEntries = <<>>

\* the request of slot p has been answered
Answered(p) == patches[p].pc = "done"

\* the DELETE of slot p deleted the row
Removed(p) == Has(patches[p], "removed")

\* the session user is the owner of the row or has role ADMIN
OwnerOrAdmin(row, session) == row.ownerId = session \/ role(session) = "ADMIN"

\* the answered request of slot p comes from an authenticated user who is
\* neither the owner of the row it names, which the table holds, nor an admin
FromOtherUser(p) ==
    /\ Answered(p)
    /\ patches[p].session # "none"
    /\ findUnique(buyers, patches[p].id) # <<>>
    /\ ~OwnerOrAdmin(findUnique(buyers, patches[p].id)[1], patches[p].session)

\* a row is modified or deleted only by its owner or an admin, and an
\* unauthenticated request gets 401 and changes nothing
OnlyOwnerOrAdmin ==
    \A p \in Slots :
        /\ Updated(p) => OwnerOrAdmin(patches[p].replaced, patches[p].session)
        /\ Removed(p) => OwnerOrAdmin(patches[p].removed, patches[p].session)
        /\ (Answered(p) /\ patches[p].session = "none") =>
               patches[p].response.status = 401 /\ ~Updated(p) /\ ~Removed(p)

ExportImportDone == op = "exportImport" /\ done

\* the record read back agrees with the record exported on a column: the
\* same value, and an empty or absent cell where the record holds none
SameOn(key, exported, imported) ==
    IF Has(exported, key) THEN Has(imported, key) /\ imported[key] = exported[key]
    ELSE ~Has(imported, key) \/ imported[key] = ""

\* C30: export followed by import is lossless at record level: for every
\* valid canonical buyer record r (also without source, bhk or email, and with
\* notes that contain commas, quotes or newlines),
\* parseCsvContent(generateCsvContent([r])) returns success = true with exactly
\* one record, equal to r on the 14 import columns.
C30_ExportImportLossless ==
    ExportImportDone =>
        /\ result.kind = "return"
        /\ result.success
        /\ Len(DataOf(result)) = 1
        /\ \A j \in 1..Len(expectedHeaders) :
               SameOn(expectedHeaders[j], rowData, result.data[1])
====
